---- MODULE Spec2Model ----
(***************************************************************************)
(* Model of the entity-tuple context-discovery engine of the repository:   *)
(*   database_creation/utils.py    (BaseClass: standardize, match)         *)
(*   database_creation/article.py  (Article: contexts_neigh_sent, ...)     *)
(*   database_creation/database.py (Database: filter, clean_*, ...)        *)
(*                                                                         *)
(* Python values are represented as follows.                               *)
(*   str            a sequence of one-character strings                    *)
(*   list, tuple    a sequence                                             *)
(*   set            a set                                                  *)
(*   dict           a sequence of records [key, value] with distinct keys, *)
(*                  in insertion order (the iteration order of a dict)     *)
(*   None           the value None                                         *)
(***************************************************************************)
EXTENDS Integers, Sequences, FiniteSets, TLC

None == "None"

(***************************************************************************)
(* Generic helpers on sequences, sets and dicts.                           *)
(***************************************************************************)

Range(s) == {s[i] : i \in 1..Len(s)}

Min(S) == CHOOSE x \in S : \A y \in S : x <= y

Max(S) == CHOOSE x \in S : \A y \in S : x >= y

\* sorted(S) for a set of integers
RECURSIVE SortedInts(_)
SortedInts(S) ==
    IF S = {} THEN <<>> ELSE <<Min(S)>> \o SortedInts(S \ {Min(S)})

\* range(a, b + 1) as a tuple
RECURSIVE RangeTuple(_, _)
RangeTuple(a, b) == IF a > b THEN <<>> ELSE <<a>> \o RangeTuple(a + 1, b)

\* Python's order on tuples of integers (lexicographic, a prefix comes first)
RECURSIVE TupleLess(_, _)
TupleLess(s, t) ==
    IF s = <<>> THEN t # <<>>
    ELSE IF t = <<>> THEN FALSE
    ELSE IF Head(s) # Head(t) THEN Head(s) < Head(t)
    ELSE TupleLess(Tail(s), Tail(t))

\* sorted(S) for a set of tuples of integers
RECURSIVE SortedTuples(_)
SortedTuples(S) ==
    IF S = {} THEN <<>>
    ELSE LET m == CHOOSE x \in S : \A y \in S \ {x} : TupleLess(x, y)
         IN  <<m>> \o SortedTuples(S \ {m})

DictKeys(d) == {d[i].key : i \in 1..Len(d)}

DictHas(d, k) == \E i \in 1..Len(d) : d[i].key = k

DictGet(d, k) == d[CHOOSE i \in 1..Len(d) : d[i].key = k].value

\* d[k] = v
DictSet(d, k, v) ==
    IF DictHas(d, k)
    THEN [i \in 1..Len(d) |-> IF d[i].key = k THEN [key |-> k, value |-> v] ELSE d[i]]
    ELSE Append(d, [key |-> k, value |-> v])

\* list.remove(x): removes the first occurrence (the caller checks membership)
RECURSIVE ListRemove(_, _)
ListRemove(l, x) ==
    IF l = <<>> THEN <<>>
    ELSE IF Head(l) = x THEN Tail(l)
    ELSE <<Head(l)>> \o ListRemove(Tail(l), x)

(***************************************************************************)
(* Strings: str(int), split, join.                                         *)
(***************************************************************************)

Digits == <<"0", "1", "2", "3", "4", "5", "6", "7", "8", "9">>

\* str(n) for a natural number n
RECURSIVE IntToStr(_)
IntToStr(n) ==
    IF n < 10 THEN <<Digits[n + 1]>>
    ELSE IntToStr(n \div 10) \o <<Digits[(n % 10) + 1]>>


\* sep.join(parts)
RECURSIVE Join(_, _)
Join(parts, sep) ==
    IF parts = <<>> THEN <<>>
    ELSE IF Len(parts) = 1 THEN parts[1]
    ELSE parts[1] \o sep \o Join(Tail(parts), sep)

\* s.split(', '), cur being the part read so far
RECURSIVE SplitCommaSpace(_, _)
SplitCommaSpace(s, cur) ==
    IF s = <<>> THEN <<cur>>
    ELSE IF Len(s) >= 2 /\ s[1] = "," /\ s[2] = " "
         THEN <<cur>> \o SplitCommaSpace(SubSeq(s, 3, Len(s)), <<>>)
         ELSE SplitCommaSpace(Tail(s), Append(cur, Head(s)))

\* s.split(): the maximal runs of non-blank characters, cur being the run read so far
RECURSIVE SplitBlank(_, _)
SplitBlank(s, cur) ==
    IF s = <<>> THEN (IF cur = <<>> THEN <<>> ELSE <<cur>>)
    ELSE IF Head(s) = " "
         THEN (IF cur = <<>> THEN <<>> ELSE <<cur>>) \o SplitBlank(Tail(s), <<>>)
         ELSE SplitBlank(Tail(s), Append(cur, Head(s)))

(***************************************************************************)
(* BaseClass: standardization and matching of entity names.                *)
(***************************************************************************)

\* findall(r'(.*?)\s*\(', entity): the text before the first parenthesis and
\* the blanks that precede it; the entity itself when it has no parenthesis.
BeforeParenthesis(entity) ==
    IF \A i \in 1..Len(entity) : entity[i] # "(" THEN entity
    ELSE LET q == Min({i \in 1..Len(entity) : entity[i] = "("})
             k == Min({j \in 0..(q - 1) : \A i \in (j + 1)..(q - 1) : entity[i] = " "})
         IN  SubSeq(entity, 1, k)

standardize_location(entity) == BeforeParenthesis(entity)

\* standardize_person keeping the middle name
standardize_person_middle(entity) ==
    LET e1     == BeforeParenthesis(entity)
        split1 == SplitCommaSpace(e1, <<>>)
    IN  IF Len(split1) = 2 THEN Join(<<split1[2], split1[1]>>, <<" ">>) ELSE e1

standardize_person(entity) ==
    LET e1     == BeforeParenthesis(entity)
        split1 == SplitCommaSpace(e1, <<>>)
        e2     == IF Len(split1) = 2 THEN Join(<<split1[2], split1[1]>>, <<" ">>) ELSE e1
        split2 == SplitBlank(e2, <<>>)
    IN  IF Len(split2) = 3 THEN Join(<<split2[1], split2[3]>>, <<" ">>) ELSE e2

standardize_organization(entity) == BeforeParenthesis(entity)

\* standardize returning the entity only
standardize_raw(entity) == {entity}

standardize(entity) ==
    LET s == standardize_person(entity)
    IN  {entity, standardize_location(entity), s, standardize_organization(entity)}
        \cup (IF Len(SplitBlank(s, <<>>)) = 2 THEN {SplitBlank(s, <<>>)[2]} ELSE {})

\* match looking for the first entity among the standardizations of the second
match_in(entity1, entity2) == entity1 \in standardize(entity2)

match(entity1, entity2) == (standardize(entity1) \cap standardize(entity2)) # {}

(***************************************************************************)
(* Entity, Coreference, Sentence and Context objects.                      *)
(*   Entity       [name, type_]                                            *)
(*   Coreference  [entity, sentences]: the name of the entity the chain    *)
(*                resolves to (None when unresolved) and the indexes of    *)
(*                the sentences its mentions touch                         *)
(*   Sentence     [idx, text]                                              *)
(*   Context      [sentences, entity_coreferences, abstract]               *)
(***************************************************************************)

\* the names of the entities of the corpus
Alice == <<"A">>

Bob == <<"B">>

Paris == <<"P">>

EntityNames == {Alice, Bob, Paris}

\* BaseClass.standardize of the names of the corpus, computed once
StandardizationOf == [name \in EntityNames |-> standardize(name)]

Standardization(string) ==
    IF string \in EntityNames THEN StandardizationOf[string] ELSE standardize(string)

\* Entity.match(string): the entity's name matches the string, as BaseClass.match
\* does: their standardizations intersect
EntityMatch(entity, string) ==
    (Standardization(entity.name) \cap Standardization(string)) # {}

\* Context(sentences=..., entity_coreferences=..., abstract=...)
Context(sentences_, entity_coreferences_, abstract_) ==
    [sentences |-> sentences_, entity_coreferences |-> entity_coreferences_, abstract |-> abstract_]

\* deepcopy(sentence): a new object with the same content
deepcopy(sentence) == [idx |-> sentence.idx, text |-> sentence.text]

\* the truth value of coreference.entity (None and '' are false)
Truthy(string) == string # None /\ string # <<>>

(***************************************************************************)
(* Article.get_entity_sentences                                            *)
(***************************************************************************)

EntitySentencesSet(corefs, entity) ==
    UNION {corefs[c].sentences : c \in {d \in 1..Len(corefs) :
                Truthy(corefs[d].entity) /\ EntityMatch(entity, corefs[d].entity)}}

get_entity_sentences(corefs, entity) == SortedInts(EntitySentencesSet(corefs, entity))

(***************************************************************************)
(* Article.contexts_neigh_sent                                             *)
(***************************************************************************)

\* AddPosition with sentences_entities[idx] = {i} in place of .add(i)
RECURSIVE AddPosition_overwrite(_, _, _)
AddPosition_overwrite(se, idxs, i) ==
    IF idxs = <<>> THEN se
    ELSE AddPosition_overwrite(DictSet(se, Head(idxs), {i}), Tail(idxs), i)

\* for idx in idxs: sentences_entities[idx].add(i)   (a defaultdict(set))
RECURSIVE AddPosition(_, _, _)
AddPosition(se, idxs, i) ==
    IF idxs = <<>> THEN se
    ELSE LET idx == Head(idxs)
             old == IF DictHas(se, idx) THEN DictGet(se, idx) ELSE {}
         IN  AddPosition(DictSet(se, idx, old \cup {i}), Tail(idxs), i)

\* lines 272-276: the positions (0-based) of the tuple's entities mentioned in each sentence
RECURSIVE SentencesEntities(_, _, _, _)
SentencesEntities(corefs, entities, i, se) ==
    IF i >= Len(entities) THEN se
    ELSE SentencesEntities(corefs, entities, i + 1,
                           AddPosition(se, get_entity_sentences(corefs, entities[i + 1]), i))

\* lines 286-291: for j in sentences_entities[idx + i]: try unseens.remove(j); seers.add(idx + i)
RECURSIVE RemoveSeen(_, _, _, _)
RemoveSeen(js, unseens, seers, sent) ==
    IF js = <<>> THEN [unseens |-> unseens, seers |-> seers]
    ELSE IF Head(js) \in Range(unseens)
         THEN RemoveSeen(Tail(js), ListRemove(unseens, Head(js)), seers \cup {sent}, sent)
         ELSE RemoveSeen(Tail(js), unseens, seers, sent)

\* Walk with the test 'if seers' in place of 'if not unseens'
RECURSIVE Walk_seers(_, _, _, _, _, _)
Walk_seers(se, idx, i, m, unseens, seers) ==
    IF i >= m THEN None
    ELSE IF DictHas(se, idx + i)
         THEN LET r == RemoveSeen(SortedInts(DictGet(se, idx + i)), unseens, seers, idx + i)
              IN  IF r.seers # {}
                  THEN LET sorted_seers == SortedInts(r.seers)
                       IN  RangeTuple(sorted_seers[1], sorted_seers[Len(sorted_seers)])
                  ELSE Walk_seers(se, idx, i + 1, m, r.unseens, r.seers)
         ELSE Walk_seers(se, idx, i + 1, m, unseens, seers)

\* Walk over range(len(tuple_.entities) + 1)
RECURSIVE Walk_longer(_, _, _, _, _, _)
Walk_longer(se, idx, i, m, unseens, seers) ==
    IF i > m THEN None
    ELSE IF DictHas(se, idx + i)
         THEN LET r == RemoveSeen(SortedInts(DictGet(se, idx + i)), unseens, seers, idx + i)
              IN  IF r.unseens = <<>>
                  THEN LET sorted_seers == SortedInts(r.seers)
                       IN  RangeTuple(sorted_seers[1], sorted_seers[Len(sorted_seers)])
                  ELSE Walk_longer(se, idx, i + 1, m, r.unseens, r.seers)
         ELSE Walk_longer(se, idx, i + 1, m, unseens, seers)

\* Walk recording range(seers[0], seers[-1] + 2)
RECURSIVE Walk_wide(_, _, _, _, _, _)
Walk_wide(se, idx, i, m, unseens, seers) ==
    IF i >= m THEN None
    ELSE IF DictHas(se, idx + i)
         THEN LET r == RemoveSeen(SortedInts(DictGet(se, idx + i)), unseens, seers, idx + i)
              IN  IF r.unseens = <<>>
                  THEN LET sorted_seers == SortedInts(r.seers)
                       IN  RangeTuple(sorted_seers[1], sorted_seers[Len(sorted_seers)] + 1)
                  ELSE Walk_wide(se, idx, i + 1, m, r.unseens, r.seers)
         ELSE Walk_wide(se, idx, i + 1, m, unseens, seers)

\* Walk recording the sentences seen so far when the loop ends, whatever is unseen
RECURSIVE Walk_uncovered(_, _, _, _, _, _)
Walk_uncovered(se, idx, i, m, unseens, seers) ==
    IF i >= m
    THEN (IF seers = {} THEN None
          ELSE RangeTuple(SortedInts(seers)[1], SortedInts(seers)[Cardinality(seers)]))
    ELSE IF DictHas(se, idx + i)
         THEN LET r == RemoveSeen(SortedInts(DictGet(se, idx + i)), unseens, seers, idx + i)
              IN  Walk_uncovered(se, idx, i + 1, m, r.unseens, r.seers)
         ELSE Walk_uncovered(se, idx, i + 1, m, unseens, seers)

\* lines 284-296: the walk from the start sentence idx over idx, idx + 1, ..., idx + m - 1;
\* the window recorded from idx, or None when the loop ends with entities unseen
RECURSIVE Walk(_, _, _, _, _, _)
Walk(se, idx, i, m, unseens, seers) ==
    IF i >= m THEN None
    ELSE IF DictHas(se, idx + i)
         THEN LET r == RemoveSeen(SortedInts(DictGet(se, idx + i)), unseens, seers, idx + i)
              IN  IF r.unseens = <<>>
                  THEN LET sorted_seers == SortedInts(r.seers)
                       IN  RangeTuple(sorted_seers[1], sorted_seers[Len(sorted_seers)])
                  ELSE Walk(se, idx, i + 1, m, r.unseens, r.seers)
         ELSE Walk(se, idx, i + 1, m, unseens, seers)

\* WindowFrom recording all the sentences of the walk when the tuple is covered
WindowFrom_whole(se, idx, m) ==
    IF Walk(se, idx, 0, m, RangeTuple(0, m - 1), {}) = None THEN None
    ELSE RangeTuple(idx, idx + m - 1)

\* lines 281-296 for one start sentence
WindowFrom(se, idx, m) == Walk(se, idx, 0, m, RangeTuple(0, m - 1), {})

\* lines 278-296: contexts_sentences, over the keys of sentences_entities in their order
RECURSIVE ContextsSentences(_, _, _, _)
ContextsSentences(se, k, m, acc) ==
    IF k > Len(se) THEN acc
    ELSE LET w == WindowFrom(se, se[k].key, m)
         IN  ContextsSentences(se, k + 1, m, IF w = None THEN acc ELSE acc \cup {w})

\* Correspondences with entity.match(coreference.entity) in place of the equality
Correspondences_match(corefs, entities, idx) ==
    [e \in 1..Len(entities) |->
        <<entities[e],
          SelectSeq(corefs, LAMBDA coreference :
                       /\ idx \in coreference.sentences
                       /\ Truthy(coreference.entity)
                       /\ EntityMatch(entities[e], coreference.entity))>>]

\* lines 306-310: the correspondences of one sentence
Correspondences(corefs, entities, idx) ==
    [e \in 1..Len(entities) |->
        <<entities[e],
          SelectSeq(corefs, LAMBDA coreference :
                       /\ idx \in coreference.sentences
                       /\ Truthy(coreference.entity)
                       /\ coreference.entity = entities[e].name)>>]

\* lines 302-312: entity_coreferences of one window
RECURSIVE EntityCoreferences(_, _, _, _)
EntityCoreferences(corefs, entities, idxs, acc) ==
    IF idxs = <<>> THEN acc
    ELSE EntityCoreferences(corefs, entities, Tail(idxs),
                            DictSet(acc, Head(idxs), Correspondences(corefs, entities, Head(idxs))))

\* line 315: {idx: deepcopy(self.sentences[idx]) for idx in idxs}
RECURSIVE CopySentences(_, _, _)
CopySentences(sents, idxs, acc) ==
    IF idxs = <<>> THEN acc
    ELSE CopySentences(sents, Tail(idxs), DictSet(acc, Head(idxs), deepcopy(DictGet(sents, Head(idxs)))))

\* WindowId with idxs[0] in place of idxs[-1]
WindowId_first(idxs) == IntToStr(idxs[1]) \o <<"_">> \o IntToStr(idxs[1])

\* line 314: the identifier of a window
WindowId(idxs) == IntToStr(idxs[1]) \o <<"_">> \o IntToStr(idxs[Len(idxs)])

\* lines 298-316: one Context per window, in sorted order
RECURSIVE Materialize(_, _, _, _, _)
Materialize(corefs, sents, entities, windows, contexts_) ==
    IF windows = <<>> THEN contexts_
    ELSE LET idxs == Head(windows)
         IN  Materialize(corefs, sents, entities, Tail(windows),
                 DictSet(contexts_, WindowId(idxs),
                         Context(CopySentences(sents, idxs, <<>>),
                                 EntityCoreferences(corefs, entities, idxs, <<>>),
                                 None)))

\* lines 272-298: the sorted list of the windows found
SortedContextsSentences(corefs, tuple_entities) ==
    LET se == SentencesEntities(corefs, tuple_entities, 0, <<>>)
    IN  SortedTuples(ContextsSentences(se, 1, Len(tuple_entities), {}))

\* the whole method: the dict it returns
contexts_neigh_sent(corefs, sents, tuple_entities) ==
    Materialize(corefs, sents, tuple_entities, SortedContextsSentences(corefs, tuple_entities), <<>>)

(***************************************************************************)
(* Article.contexts_abstract and Article.compute_contexts                  *)
(***************************************************************************)

\* sub in string
IsSubstring(sub, string) ==
    \E i \in 0..(Len(string) - Len(sub)) : SubSeq(string, i + 1, i + Len(sub)) = sub

\* Entity.is_in(string, flexible): the entity's name (flexibly: one of its
\* standardizations) appears in the string
EntityIsIn(entity, string, flexible) ==
    \E form \in (IF flexible THEN Standardization(entity.name) ELSE {entity.name}) :
        IsSubstring(form, string)

\* contexts_abstract returning the context as soon as one entity is in the abstract
RECURSIVE contexts_abstract_any(_, _)
contexts_abstract_any(abstract_, entities) ==
    IF entities = <<>> THEN <<>>
    ELSE IF EntityIsIn(Head(entities), abstract_, TRUE)
         THEN <<[key |-> <<"0">>, value |-> Context(None, None, abstract_)]>>
         ELSE contexts_abstract_any(abstract_, Tail(entities))

\* the whole method: the loop over the entities still to check, and the dict returned
RECURSIVE contexts_abstract(_, _)
contexts_abstract(abstract_, entities) ==
    IF entities = <<>> THEN <<[key |-> <<"0">>, value |-> Context(None, None, abstract_)]>>
    ELSE IF ~EntityIsIn(Head(entities), abstract_, TRUE) THEN <<>>
    ELSE contexts_abstract(abstract_, Tail(entities))

\* Tuple.get_name: the names of the tuple's entities
TupleGetName(t) == [e \in 1..Len(t.entities) |-> t.entities[e].name]

\* lines 86-87: for context_id_, context in contexts.items(): self.contexts[name][context_id_] = context
RECURSIVE StoreContexts(_, _)
StoreContexts(stored, new) ==
    IF new = <<>> THEN stored
    ELSE StoreContexts(DictSet(stored, Head(new).key, Head(new).value), Tail(new))

\* line 84: getattr(self, 'contexts_' + type_)(tuple_)
ContextsOfType(type_, corefs, sents, abstract_, t) ==
    IF type_ = "neigh_sent" THEN contexts_neigh_sent(corefs, sents, t.entities)
    ELSE contexts_abstract(abstract_, t.entities)

\* lines 83-87: the loop over the types, in the order the argument iterates in
RECURSIVE ContextsOfTypes(_, _, _, _, _, _)
ContextsOfTypes(types_, corefs, sents, abstract_, t, stored) ==
    IF types_ = <<>> THEN stored
    ELSE ContextsOfTypes(Tail(types_), corefs, sents, abstract_, t,
                         StoreContexts(stored, ContextsOfType(Head(types_), corefs, sents, abstract_, t)))

\* the whole method: the new value of self.contexts
compute_contexts(old, types_, corefs, sents, abstract_, t) ==
    DictSet(IF old = None \/ old = <<>> THEN <<>> ELSE old,
            TupleGetName(t),
            ContextsOfTypes(types_, corefs, sents, abstract_, t, <<>>))

(***************************************************************************)
(* State.                                                                  *)
(*   One article: coreferences, sentences, abstract, contexts (the fields  *)
(*   of Article), tuple_ (the Tuple the contexts_ methods are called       *)
(*   with), called (the method that ran last), ret (what it returned) and  *)
(*   contexts_sentences (the local variable of contexts_neigh_sent when it *)
(*   returned), types (the argument of compute_contexts, in the order it   *)
(*   iterates in), objects (the Sentence objects in memory, by address,    *)
(*   where the sentences are followed as references).                      *)
(***************************************************************************)
VARIABLES coreferences, sentences, abstract, contexts, tuple_, called, ret, contexts_sentences,
          types, objects,
          articles, entities, tuples, min_articles, min_queries, queries,
          raised, kwargs, pre, guarantee, args,
          pipeline, frame

article_vars ==
    <<coreferences, sentences, abstract, contexts, tuple_, called, ret, contexts_sentences, types,
      objects>>

\* the Database: its articles (a dict of the articles by id), entities (a dict of
\* the entities by name), tuples (a list), thresholds and queries (a dict of the
\* queries by id); then the exception the
\* last call raised, the keyword arguments of the last call of filter, the
\* database before that call, the threshold a sequence of calls of filter has
\* kept so far, and the arguments of the last call of a static method
database_vars == <<articles, entities, tuples, min_articles, min_queries, queries>>

call_vars == <<raised, kwargs, pre, guarantee, args>>

\* the Pipeline (its loaders, and the raw data process_data has loaded) and the
\* local variables of the call of get_loader that is running
pipeline_vars == <<pipeline, frame>>

vars == <<article_vars, database_vars, call_vars, pipeline_vars>>

\* Database.__init__, no call made
InitDatabase ==
    /\ articles = None
    /\ entities = None
    /\ tuples = None
    /\ min_articles = 1
    /\ min_queries = 1
    /\ queries = None
    /\ raised = None
    /\ kwargs = None
    /\ pre = None
    /\ guarantee = None
    /\ args = None
    /\ pipeline = None
    /\ frame = None

(***************************************************************************)
(* Bounds and inputs of the article model.                                 *)
(***************************************************************************)

\* the largest number of sentences of an article
NumSent == 4

\* the largest number of sentences one coreference chain touches
MaxMentions == 2

\* the entities of the article's metadata, sorted by name
ArticleEntities ==
    << [name |-> Alice, type_ |-> "person"],
       [name |-> Bob,   type_ |-> "person"],
       [name |-> Paris, type_ |-> "location"] >>

\* the shapes of the annotated article: the index of its first sentence, the number
\* of its sentences, and whether it has a chain that resolves to no entity
ArticleShapes ==
    { [first |-> 0, n |-> NumSent - 1, unresolved |-> FALSE],
      [first |-> 1, n |-> NumSent,     unresolved |-> FALSE],
      [first |-> 9, n |-> NumSent - 2, unresolved |-> TRUE] }

SentenceIdxs(shape) == shape.first..(shape.first + shape.n - 1)

\* the sets of sentences one chain may touch (the empty set: the entity has no chain)
MentionSets(shape) == {S \in SUBSET SentenceIdxs(shape) : Cardinality(S) <= MaxMentions}

\* Article.get_sentences: a dict from the sentences' indexes to the Sentences
RECURSIVE SentencesOf(_)
SentencesOf(idxs) ==
    IF idxs = <<>> THEN <<>>
    ELSE <<[key |-> Head(idxs), value |-> [idx |-> Head(idxs), text |-> <<"s">> \o IntToStr(Head(idxs))]]>>
         \o SentencesOf(Tail(idxs))

\* Article.get_coreferences: one chain per mentioned entity, after the unresolved chain
CoreferencesOf(shape, layout) ==
    (IF shape.unresolved THEN <<[entity |-> None, sentences |-> SentenceIdxs(shape)]>> ELSE <<>>)
    \o SelectSeq([e \in 1..Len(ArticleEntities) |->
                     [entity |-> ArticleEntities[e].name, sentences |-> layout[e]]],
                 LAMBDA coreference : coreference.sentences # {})

\* the entities of a Tuple: a sorted tuple of at least 2 entities of the article
TupleEntities(S) == SelectSeq(ArticleEntities, LAMBDA entity : entity \in S)

Tuples ==
    {[id_ |-> <<"1">>, entities |-> TupleEntities(S)] :
        S \in {T \in SUBSET Range(ArticleEntities) : Cardinality(T) >= 2}}

(***************************************************************************)
(* The article after compute_metadata and compute_annotations, and a call  *)
(* of contexts_neigh_sent.                                                 *)
(***************************************************************************)

InitArticle ==
    /\ \E shape \in ArticleShapes :
         /\ sentences = SentencesOf(SortedInts(SentenceIdxs(shape)))
         /\ \E layout \in [1..Len(ArticleEntities) -> MentionSets(shape)] :
               coreferences = CoreferencesOf(shape, layout)
    /\ abstract = <<>>
    /\ contexts = None
    /\ tuple_ \in Tuples
    /\ called = "none"
    /\ ret = None
    /\ contexts_sentences = None
    /\ types = None
    /\ objects = None
    /\ InitDatabase

ContextsNeighSent ==
    /\ called = "none"
    /\ LET windows == SortedContextsSentences(coreferences, tuple_.entities)
       IN  /\ contexts_sentences' = windows
           /\ ret' = Materialize(coreferences, sentences, tuple_.entities, windows, <<>>)
    /\ called' = "contexts_neigh_sent"
    /\ UNCHANGED <<coreferences, sentences, abstract, contexts, tuple_, types, objects>>
    /\ UNCHANGED <<database_vars, call_vars>>
    /\ UNCHANGED pipeline_vars

NextWindow == ContextsNeighSent

SpecWindow == InitArticle /\ [][NextWindow]_vars

(***************************************************************************)
(* Properties of contexts_neigh_sent (checked under SpecWindow).           *)
(***************************************************************************)

Returned == called = "contexts_neigh_sent"

TupleSize == Len(tuple_.entities)

Positions == 1..TupleSize

\* the sentences get_entity_sentences reports for each entity of the tuple
MentionsOf == [e \in Positions |-> Range(get_entity_sentences(coreferences, tuple_.entities[e]))]

\* CoveredWithin and Mentioned below, for given mentions M
CoveredIn(M, a, b) == \A e \in DOMAIN M : M[e] \cap (a..b) # {}

MentionedIn(M, idx) == \E e \in DOMAIN M : idx \in M[e]

\* the sentences get_entity_sentences reports for the e-th entity of the tuple
Mentions(e) == MentionsOf[e]

\* every entity of the tuple is mentioned in some sentence of a..b
CoveredWithin(a, b) == CoveredIn(MentionsOf, a, b)

\* the sentence mentions at least one entity of the tuple
Mentioned(idx) == MentionedIn(MentionsOf, idx)

\* the span <<first, last>> of a returned window context: the sentences it holds
SpanOf(context) ==
    <<Min(DictKeys(context.sentences)), Max(DictKeys(context.sentences))>>

RetSpans == {SpanOf(ret[k].value) : k \in 1..Len(ret)}

RetIds == {ret[k].key : k \in 1..Len(ret)}

\* int(s) for a string of digits, -1 for any other string
RECURSIVE StrToInt(_)
StrToInt(str) ==
    IF str = <<>> \/ \E i \in 1..Len(str) : str[i] \notin Range(Digits) THEN -1
    ELSE LET d == (CHOOSE k \in 1..10 : Digits[k] = str[Len(str)]) - 1
         IN  IF Len(str) = 1 THEN d ELSE 10 * StrToInt(SubSeq(str, 1, Len(str) - 1)) + d

\* the pair <<first, last>> an identifier "<first>_<last>" denotes, <<>> for any other string
ParseWindowId(id) ==
    LET seps == {i \in 1..Len(id) : id[i] = "_"}
    IN  IF Cardinality(seps) # 1 THEN <<>>
        ELSE LET i == CHOOSE j \in seps : TRUE
                 a == StrToInt(SubSeq(id, 1, i - 1))
                 b == StrToInt(SubSeq(id, i + 1, Len(id)))
             IN  IF a < 0 \/ b < 0 THEN <<>> ELSE <<a, b>>

\* C1: every window context returned by contexts_neigh_sent attests the whole tuple:
\* for every entity of the tuple, some sentence the context holds is one of the
\* sentences get_entity_sentences reports for that entity.
C1_WindowAttestsTuple ==
    Returned =>
        LET M == MentionsOf
        IN  \A k \in 1..Len(ret) : \A e \in Positions :
                DictKeys(ret[k].value.sentences) \cap M[e] # {}

\* a window of several sentences was returned for a tuple of 3 entities
C1_Witness ==
    /\ Returned
    /\ TupleSize = 3
    /\ \E w \in RetSpans : w[2] > w[1]

\* the example of C2: A mentioned in sentences {1, 4}, B in sentence {3}
ExampleAB ==
    /\ TupleSize = 2
    /\ tuple_.entities[1].name = Alice /\ tuple_.entities[2].name = Bob
    /\ Mentions(1) = {1, 4}
    /\ Mentions(2) = {3}

\* C2 as stated: from every start sentence that mentions a tuple entity, a window
\* starting there is recorded whenever every tuple entity is mentioned at or after
\* it; in the example the window recorded from start 1 is (1, 3).
C2_Original ==
    Returned =>
        /\ \A idx \in DictKeys(sentences) :
              (Mentioned(idx) /\ \A e \in Positions : \E j \in Mentions(e) : j >= idx)
                  => \E w \in RetSpans : w[1] = idx
        /\ ExampleAB => <<1, 3>> \in RetSpans

\* C2 amended: the walk from a start sentence idx that mentions a tuple entity
\* covers only the m sentences idx .. idx+m-1 (m the size of the tuple); a window
\* starting at idx is recorded iff every tuple entity is mentioned in one of them,
\* and it ends at the first sentence by which all have been seen. In the example
\* no window is recorded from start 1 and the only window is (3, 4).
C2_BoundedWalk ==
    Returned =>
        LET M == MentionsOf
            spans == RetSpans
        IN  /\ \A idx \in DictKeys(sentences) :
                  /\ (\E w \in spans : w[1] = idx)
                        <=> (MentionedIn(M, idx) /\ CoveredIn(M, idx, idx + TupleSize - 1))
                  /\ \A w \in spans :
                        w[1] = idx => w[2] = Min({j \in idx..(idx + TupleSize - 1) : CoveredIn(M, idx, j)})
            /\ \A w \in spans : w[1] \in DictKeys(sentences)
            /\ ExampleAB => spans = {<<3, 4>>}

\* the example of C2 has been run
C2_Witness == Returned /\ ExampleAB

\* C3 as stated: no strictly shorter contiguous range contained in an emitted
\* window mentions every entity of the tuple, and no emitted window strictly
\* contains another emitted window.
C3_Original ==
    Returned =>
        /\ \A w \in RetSpans : \A a \in w[1]..w[2] : \A b \in a..w[2] :
              (b - a < w[2] - w[1]) => ~CoveredWithin(a, b)
        /\ \A w, v \in RetSpans :
              (w[1] <= v[1] /\ v[2] <= w[2]) => v = w

\* C3 amended: every emitted window is minimal among the ranges that start at its
\* first sentence: no strictly shorter range with the same first sentence mentions
\* every entity of the tuple (a shorter covering range that starts later may lie
\* inside it, and is then emitted too).
C3_MinimalFromStart ==
    Returned =>
        LET M == MentionsOf
            spans == RetSpans
        IN  \A w \in spans :
                /\ CoveredIn(M, w[1], w[2])
                /\ \A b \in w[1]..(w[2] - 1) : ~CoveredIn(M, w[1], b)
                /\ \A a \in w[1]..w[2] : \A b \in a..w[2] :
                      (b - a < w[2] - w[1] /\ CoveredIn(M, a, b))
                          => \E v \in spans : a <= v[1] /\ v[2] <= b

\* an emitted window strictly contains another emitted window
C3_Witness ==
    /\ Returned
    /\ \E w, v \in RetSpans : w # v /\ w[1] <= v[1] /\ v[2] <= w[2]

\* the e-th entity of the tuple is matched by no resolved chain of the article
Unmatched(e) ==
    \A c \in 1..Len(coreferences) :
        ~(Truthy(coreferences[c].entity) /\ match(tuple_.entities[e].name, coreferences[c].entity))

\* C4: if some entity of the tuple is matched by no resolved coreference chain,
\* contexts_neigh_sent returns an empty dict (it returns, and returns no context).
C4_NoSpuriousCoverage ==
    (Returned /\ \E e \in Positions : Unmatched(e)) => ret = <<>>

\* an entity of the tuple is unmatched while the other entities are mentioned,
\* one of them in a sentence an unresolved chain touches too
C4_Witness ==
    /\ Returned
    /\ \E e \in Positions :
          /\ Unmatched(e)
          /\ \A f \in Positions \ {e} : Mentions(f) # {}
    /\ \E c \in 1..Len(coreferences) : coreferences[c].entity = None

\* the article of the end-to-end scenario
Scenario ==
    /\ DictKeys(sentences) = 0..2
    /\ coreferences = << [entity |-> Alice, sentences |-> {0, 1}],
                         [entity |-> Bob,   sentences |-> {1}],
                         [entity |-> Paris, sentences |-> {0, 2}] >>

TupleIs(names) == [e \in Positions |-> tuple_.entities[e].name] = names

\* C5 as stated: in the scenario, (0, 1) is produced for (Alice, Bob) and no window
\* produced for that tuple is shorter; (0, 0) is produced for (Alice, Paris) and no
\* window produced for that tuple is shorter.
C5_Original ==
    (Returned /\ Scenario) =>
        /\ TupleIs(<<Alice, Bob>>) =>
              (<<0, 1>> \in RetSpans /\ \A w \in RetSpans : w[2] - w[1] >= 1)
        /\ TupleIs(<<Alice, Paris>>) =>
              (<<0, 0>> \in RetSpans /\ \A w \in RetSpans : w[2] - w[1] >= 0)

\* C5 amended: in the scenario the windows produced for (Alice, Bob) are (0, 1) and
\* (1, 1), the shortest being (1, 1); those produced for (Alice, Paris) are (0, 0)
\* and (1, 2), the shortest being (0, 0).
C5_Scenario ==
    (Returned /\ Scenario) =>
        /\ TupleIs(<<Alice, Bob>>) =>
              (RetIds = {<<"0", "_", "1">>, <<"1", "_", "1">>} /\ RetSpans = {<<0, 1>>, <<1, 1>>})
        /\ TupleIs(<<Alice, Paris>>) =>
              (RetIds = {<<"0", "_", "0">>, <<"1", "_", "2">>} /\ RetSpans = {<<0, 0>>, <<1, 2>>})

\* the scenario has been run for the tuple (Alice, Bob)
C5_Witness == Returned /\ Scenario /\ TupleIs(<<Alice, Bob>>)

\* C6: every window context is stored under an identifier "<first>_<last>" with
\* first <= last, and holds exactly the sentences first..last (copies of the
\* article's sentences); the dict returned has one entry per emitted span, so no
\* two spans received the same identifier.
C6_WindowIds ==
    Returned =>
        /\ Len(ret) = Len(contexts_sentences)
        /\ \A k \in 1..Len(ret) :
              LET span == ParseWindowId(ret[k].key)
                  held == ret[k].value.sentences
              IN  /\ span # <<>>
                  /\ span[1] <= span[2]
                  /\ DictKeys(held) = span[1]..span[2]
                  /\ Range(contexts_sentences[k]) = span[1]..span[2]
                  /\ \A idx \in DictKeys(held) : DictGet(held, idx) = DictGet(sentences, idx)
        /\ \A j, k \in 1..Len(ret) : j # k => ret[j].key # ret[k].key

\* two windows were returned, one of them of two sentences, ending at a sentence
\* with a two-digit index
C6_Witness ==
    /\ Returned
    /\ Len(ret) >= 2
    /\ \E k \in 1..Len(ret) :
          /\ SpanOf(ret[k].value)[1] < SpanOf(ret[k].value)[2]
          /\ SpanOf(ret[k].value)[2] >= 10

(***************************************************************************)
(* The article with its abstract, and calls of contexts_abstract and of     *)
(* compute_contexts.                                                       *)
(***************************************************************************)

\* the abstracts of the article: a first word, then the names of some entities
AbstractOf(S) ==
    Join(<<<<"x">>>> \o [e \in 1..Len(TupleEntities(S)) |-> TupleEntities(S)[e].name], <<" ">>)

Abstracts == {AbstractOf(S) : S \in SUBSET Range(ArticleEntities)}

\* the shape of the article whose contexts are computed
ContextsShape == [first |-> 0, n |-> NumSent - 2, unresolved |-> FALSE]

\* the orders in which the context types of compute_contexts are iterated
TypeOrders ==
    { <<>>, <<"neigh_sent">>, <<"abstract">>,
      <<"neigh_sent", "abstract">>, <<"abstract", "neigh_sent">> }

InitContexts ==
    /\ sentences = SentencesOf(SortedInts(SentenceIdxs(ContextsShape)))
    /\ \E layout \in [1..Len(ArticleEntities) ->
                        {S \in MentionSets(ContextsShape) : Cardinality(S) < MaxMentions}] :
          coreferences = CoreferencesOf(ContextsShape, layout)
    /\ abstract \in Abstracts
    /\ contexts = None
    /\ tuple_ \in Tuples
    /\ called = "none"
    /\ ret = None
    /\ contexts_sentences = None
    /\ types = None
    /\ objects = None
    /\ InitDatabase

ContextsAbstract ==
    /\ called = "none"
    /\ ret' = contexts_abstract(abstract, tuple_.entities)
    /\ called' = "contexts_abstract"
    /\ UNCHANGED <<coreferences, sentences, abstract, contexts, tuple_, contexts_sentences, types, objects>>
    /\ UNCHANGED <<database_vars, call_vars>>
    /\ UNCHANGED pipeline_vars

ComputeContexts ==
    /\ called = "none"
    /\ \E order \in TypeOrders :
          /\ types' = order
          /\ contexts' = compute_contexts(contexts, order, coreferences, sentences, abstract, tuple_)
          /\ contexts_sentences' =
                IF "neigh_sent" \in Range(order)
                THEN SortedContextsSentences(coreferences, tuple_.entities)
                ELSE contexts_sentences
    /\ called' = "compute_contexts"
    /\ UNCHANGED <<coreferences, sentences, abstract, tuple_, ret, objects>>
    /\ UNCHANGED <<database_vars, call_vars>>
    /\ UNCHANGED pipeline_vars

NextContexts == ContextsAbstract \/ ComputeContexts

SpecContexts == InitContexts /\ [][NextContexts]_vars

(***************************************************************************)
(* Properties of contexts_abstract (checked under SpecContexts).           *)
(***************************************************************************)

\* every entity of the tuple is flexibly found in the abstract
AllInAbstract == \A e \in Positions : EntityIsIn(tuple_.entities[e], abstract, TRUE)

AbstractId == <<"0">>

\* C7: contexts_abstract emits a context iff every entity of the tuple is flexibly
\* found in the abstract; it emits at most one, identified by "0" and holding the
\* abstract; the result is determined by the tuple and the abstract alone; and
\* when compute_contexts stores the contexts of both types, the abstract context
\* takes the place of no window context.
C7_AbstractContext ==
    /\ called = "contexts_abstract" =>
          ret = IF AllInAbstract
                THEN <<[key |-> AbstractId, value |-> Context(None, None, abstract)]>>
                ELSE <<>>
    /\ called = "compute_contexts" =>
          LET stored == DictGet(contexts, TupleGetName(tuple_))
              n_windows == IF "neigh_sent" \in Range(types) THEN Len(contexts_sentences) ELSE 0
              n_abstract == IF "abstract" \in Range(types) /\ AllInAbstract THEN 1 ELSE 0
          IN  /\ DictHas(stored, AbstractId) <=> n_abstract = 1
              /\ DictHas(stored, AbstractId) =>
                    DictGet(stored, AbstractId) = Context(None, None, abstract)
              /\ Len(stored) = n_windows + n_abstract
              /\ \A k \in 1..Len(stored) :
                    stored[k].key # AbstractId => ParseWindowId(stored[k].key) # <<>>

\* compute_contexts stored the abstract context and the window context "0_0"
C7_Witness ==
    /\ called = "compute_contexts"
    /\ Len(types) = 2
    /\ AllInAbstract
    /\ DictHas(DictGet(contexts, TupleGetName(tuple_)), AbstractId)
    /\ DictHas(DictGet(contexts, TupleGetName(tuple_)), <<"0", "_", "0">>)

(***************************************************************************)
(* Database: the tuples of the corpus and Database.filter.                 *)
(* str(entity) is the entity's name (the key of Database.entities) and     *)
(* str(tuple_) the names of the tuple's entities.                          *)
(***************************************************************************)

\* ord(c) for the characters of the names and of the str of a tuple of names
Ord ==
    (" " :> 32) @@ ("'" :> 39) @@ ("(" :> 40) @@ (")" :> 41) @@ ("," :> 44) @@
    ("0" :> 48) @@ ("1" :> 49) @@ ("2" :> 50) @@ ("3" :> 51) @@ ("4" :> 52) @@
    ("5" :> 53) @@ ("6" :> 54) @@ ("7" :> 55) @@ ("8" :> 56) @@ ("9" :> 57) @@
    ("A" :> 65) @@ ("B" :> 66) @@ ("C" :> 67) @@ ("D" :> 68) @@ ("E" :> 69) @@
    ("F" :> 70) @@ ("G" :> 71) @@ ("H" :> 72) @@ ("I" :> 73) @@ ("J" :> 74) @@
    ("K" :> 75) @@ ("P" :> 80)

\* Python's order on strings
RECURSIVE StrLess(_, _)
StrLess(a, b) ==
    IF b = <<>> THEN FALSE
    ELSE IF a = <<>> THEN TRUE
    ELSE IF Head(a) = Head(b) THEN StrLess(Tail(a), Tail(b))
    ELSE Ord[Head(a)] < Ord[Head(b)]

\* sorted(l) for a collection of distinct strings
RECURSIVE SortedStrs(_)
SortedStrs(S) ==
    IF S = {} THEN <<>>
    ELSE LET least == CHOOSE x \in S : \A y \in S \ {x} : StrLess(x, y)
         IN  <<least>> \o SortedStrs(S \ {least})

\* str(k) for a tuple k of names
StrOfNames(k) ==
    <<"(">> \o Join([i \in 1..Len(k) |-> <<"'">> \o k[i] \o <<"'">>], <<",", " ">>) \o <<")">>

\* Database.subtuples leaving the whole of l out when it has more than 2 elements
RECURSIVE subtuples_pairs(_)
subtuples_pairs(l) ==
    IF Cardinality(l) < 2 THEN {}
    ELSE IF Cardinality(l) = 2 \/ Cardinality(l) > 10 THEN {SortedStrs(l)}
    ELSE UNION {subtuples_pairs(l \ {x}) : x \in l}

\* Database.subtuples
RECURSIVE subtuples(_)
subtuples(l) ==
    IF Cardinality(l) < 2 THEN {}
    ELSE IF Cardinality(l) = 2 \/ Cardinality(l) > 10 THEN {SortedStrs(l)}
    ELSE {SortedStrs(l)} \cup UNION {subtuples(l \ {x}) : x \in l}

Carol == <<"C">>

\* the entities the articles of the corpus mention
CorpusEntities ==
    << [name |-> Alice, type_ |-> "person"],
       [name |-> Bob,   type_ |-> "person"],
       [name |-> Carol, type_ |-> "person"],
       [name |-> Paris, type_ |-> "location"] >>

\* str(entity)
StrOfEntity(entity) == entity.name

\* Tuple(id_, entities, article_ids), which has no query yet
Tuple(id_, entities_, article_ids) ==
    [id_ |-> id_, entities |-> entities_, article_ids |-> article_ids, query_ids |-> {}]

\* str(tuple_)
StrOfTuple(t) == [e \in 1..Len(t.entities) |-> StrOfEntity(t.entities[e])]

\* compute_entities: the entities of the articles, by name, in the order they are met
RECURSIVE compute_entities(_, _)
compute_entities(article_entities, catalog) ==
    IF article_entities = <<>> THEN catalog
    ELSE compute_entities(
            Tail(article_entities),
            IF DictHas(catalog, StrOfEntity(Head(article_entities))) THEN catalog
            ELSE DictSet(catalog, StrOfEntity(Head(article_entities)), Head(article_entities)))

\* compute_tuples, lines 380-388: the names of an article's entities of a type
EntitiesOfType(article, type_) ==
    {article.entities[e].name : e \in {i \in 1..Len(article.entities) : article.entities[i].type_ = type_}}

\* the types of an article's entities
TypesOf(article) == {article.entities[e].type_ : e \in 1..Len(article.entities)}

\* the subtuples of an article, of the names of all its entities together
ArticleSubtuples_mixed(article) ==
    subtuples({article.entities[e].name : e \in 1..Len(article.entities)})

\* lines 383-389: the subtuples of an article, of the names of each type
ArticleSubtuples(article) ==
    UNION {subtuples(EntitiesOfType(article, type_)) : type_ \in TypesOf(article)}

\* ids giving every subtuple the ids of all the articles
Ids_all(articles_) ==
    [k \in UNION {ArticleSubtuples(articles_[a].value) : a \in 1..Len(articles_)} |->
        {articles_[a].key : a \in 1..Len(articles_)}]

\* ids, lines 377-389: the ids of the articles that have each subtuple
Ids(articles_) ==
    LET subs == [a \in 1..Len(articles_) |-> ArticleSubtuples(articles_[a].value)]
    IN  [k \in UNION {subs[a] : a \in 1..Len(articles_)} |->
            {articles_[a].key : a \in {i \in 1..Len(articles_) : k \in subs[i]}}]

\* the keys of ids in the order they are inserted: article after article, the
\* subtuples of an article in the order the sets are iterated in
RECURSIVE IdsOrder(_, _, _)
IdsOrder(articles_, order, keys) ==
    IF articles_ = <<>> THEN keys
    ELSE LET new == ArticleSubtuples(Head(articles_).value) \ Range(keys)
         IN  IdsOrder(Tail(articles_), order, keys \o SelectSeq(order, LAMBDA k : k \in new))

\* the orders the sets of subtuples may be iterated in
RECURSIVE Orders(_)
Orders(keys) ==
    IF keys = {} THEN {<<>>}
    ELSE UNION {{<<k>> \o order : order \in Orders(keys \ {k})} : k \in keys}

\* one of these orders (the ranking is the same for all of them)
AnOrder(keys) == CHOOSE order \in Orders(keys) : TRUE

\* the sort key of line 391 comparing the numbers of articles only
KeyGreater_len(ids, k, other) == Cardinality(ids[k]) > Cardinality(ids[other])

\* line 391: (len(ids[k]), str(k)) > (len(ids[other]), str(other))
KeyGreater(ids, k, other) ==
    \/ Cardinality(ids[k]) > Cardinality(ids[other])
    \/ /\ Cardinality(ids[k]) = Cardinality(ids[other])
       /\ StrLess(StrOfNames(other), StrOfNames(k))

\* line 391: sorted(ids, key=lambda k: (len(ids[k]), str(k)), reverse=True), the
\* sort being stable
RECURSIVE Ranking(_, _)
Ranking(ids, keys) ==
    IF keys = <<>> THEN <<>>
    ELSE LET ranked == Ranking(ids, SubSeq(keys, 1, Len(keys) - 1))
             k == keys[Len(keys)]
             after == {i \in 1..Len(ranked) : KeyGreater(ids, k, ranked[i])}
             rank == IF after = {} THEN Len(ranked) + 1 ELSE Min(after)
         IN  SubSeq(ranked, 1, rank - 1) \o <<k>> \o SubSeq(ranked, rank, Len(ranked))

\* lines 428-436: the ids of the queries of a tuple, given the context ids of each article
QueryIds(id_, article_ids, context_ids) ==
    UNION {{id_ \o <<"_">> \o article_id_ \o <<"_">> \o context_id_ :
               context_id_ \in DictGet(context_ids, article_id_)} : article_id_ \in article_ids}

\* compute_tuples: the list of the Tuples, the sets being iterated in an order
compute_tuples(articles_, entities_, order) ==
    LET ids == Ids(articles_)
        ranking == Ranking(ids, IdsOrder(articles_, order, <<>>))
    IN  [rank \in 1..Len(ranking) |->
            Tuple(IntToStr(rank),
                  [e \in 1..Len(ranking[rank]) |-> DictGet(entities_, ranking[rank][e])],
                  ids[ranking[rank]])]

\* line 436: tuple_.query_ids = query_ids, for every tuple
SetQueryIds(tuples_, context_ids) ==
    [i \in 1..Len(tuples_) |->
        [tuples_[i] EXCEPT !.query_ids = QueryIds(tuples_[i].id_, tuples_[i].article_ids, context_ids)]]

\* clean_tuples(to_keep=...)
clean_tuples(tuples_, to_keep) == SelectSeq(tuples_, LAMBDA t : StrOfTuple(t) \in to_keep)

\* clean_articles(to_keep=...) keeping every article
clean_articles_none(articles_, to_keep) == articles_

\* clean_articles(to_keep=...)
clean_articles(articles_, to_keep) == SelectSeq(articles_, LAMBDA item : item.key \in to_keep)

\* clean_entities(to_keep=...)
clean_entities(entities_, to_keep) == SelectSeq(entities_, LAMBDA item : item.key \in to_keep)

\* filter choosing min_articles whenever it is given
FilterAttribute_first(kw) ==
    IF "min_articles" \in DOMAIN kw THEN "article_ids"
    ELSE IF "min_queries" \in DOMAIN kw THEN "query_ids"
    ELSE None

\* filter, lines 805-814: the attribute the threshold is about, None when the call raises
FilterAttribute(kw) ==
    IF "min_articles" \in DOMAIN kw /\ "min_queries" \notin DOMAIN kw THEN "article_ids"
    ELSE IF "min_articles" \notin DOMAIN kw /\ "min_queries" \in DOMAIN kw THEN "query_ids"
    ELSE None

\* filter, lines 805-812: the threshold
FilterThreshold(kw) ==
    IF FilterAttribute(kw) = "article_ids" THEN kw["min_articles"] ELSE kw["min_queries"]

\* filter keeping the tuples that have an article or a query
FilterKeeps_nonempty(t, attribute, threshold) == t[attribute] # {}

\* filter, line 817: len(getattr(tuple_, attribute)) >= threshold
FilterKeeps(t, attribute, threshold) == Cardinality(t[attribute]) >= threshold

\* KeptTuples with the loop over self.tuples[:-1]
KeptTuples_butlast(tuples_, attribute, threshold) ==
    {tuples_[i] : i \in {j \in 1..(Len(tuples_) - 1) : FilterKeeps(tuples_[j], attribute, threshold)}}

\* filter, lines 816-820: the tuples that are kept
KeptTuples(tuples_, attribute, threshold) ==
    {tuples_[i] : i \in {j \in 1..Len(tuples_) : FilterKeeps(tuples_[j], attribute, threshold)}}

(***************************************************************************)
(* The database after compute_entities and compute_tuples, the query ids   *)
(* of its tuples set, and calls of filter.                                 *)
(***************************************************************************)

\* the number of articles of the corpus
NumArticles == 2

\* the entities an article mentions
ArticleEntitySets ==
    { {Alice, Bob}, {Alice, Carol}, {Bob, Carol}, {Alice, Bob, Carol}, {Alice, Paris} }

\* the ids of the contexts an article has for a tuple it mentions
ArticleContextIds == { {}, {<<"0">>} }

\* the articles of a corpus, by id
ArticlesOf(corpus) ==
    [a \in 1..NumArticles |->
        [key |-> IntToStr(a),
         value |-> [entities |-> SelectSeq(CorpusEntities, LAMBDA entity : entity.name \in corpus[a])]]]

\* the entities of all the articles, in the order the articles list them
RECURSIVE AllEntities(_)
AllEntities(articles_) ==
    IF articles_ = <<>> THEN <<>> ELSE Head(articles_).value.entities \o AllEntities(Tail(articles_))

\* the thresholds given to filter
Thresholds == 1..NumArticles

\* the keyword arguments of a call of filter
Kwargs == UNION {[S -> Thresholds] : S \in SUBSET {"min_articles", "min_queries"}}

Snapshot(articles_, entities_, tuples_, min_articles_, min_queries_) ==
    [articles |-> articles_, entities |-> entities_, tuples |-> tuples_,
     min_articles |-> min_articles_, min_queries |-> min_queries_]

NoGuarantee == [attribute |-> None, threshold |-> 0]

InitFilter ==
    /\ coreferences = None
    /\ sentences = None
    /\ abstract = None
    /\ contexts = None
    /\ tuple_ = None
    /\ called = "none"
    /\ ret = None
    /\ contexts_sentences = None
    /\ types = None
    /\ objects = None
    /\ \E corpus \in [1..NumArticles -> ArticleEntitySets],
          ids \in [1..NumArticles -> ArticleContextIds] :
          /\ articles = ArticlesOf(corpus)
          /\ entities = compute_entities(AllEntities(articles), <<>>)
          /\ tuples = SetQueryIds(compute_tuples(articles, entities, AnOrder(DOMAIN Ids(articles))),
                                  [a \in 1..NumArticles |-> [key |-> IntToStr(a), value |-> ids[a]]])
    /\ min_articles = 1
    /\ min_queries = 1
    /\ queries = None
    /\ raised = None
    /\ kwargs = [k \in {} |-> 0]
    /\ pre = Snapshot(articles, entities, tuples, min_articles, min_queries)
    /\ guarantee = NoGuarantee
    /\ args = None
    /\ pipeline = None
    /\ frame = None

\* the threshold the calls of filter have kept since the first of the latest calls
\* of one kind with thresholds that never decrease
NextGuarantee(kw) ==
    IF /\ guarantee.attribute = FilterAttribute(kw)
       /\ FilterAttribute(kwargs) = FilterAttribute(kw)
       /\ FilterThreshold(kw) >= FilterThreshold(kwargs)
    THEN guarantee
    ELSE [attribute |-> FilterAttribute(kw), threshold |-> FilterThreshold(kw)]

Filter ==
    \E kw \in Kwargs :
       /\ called' = "filter"
       /\ kwargs' = kw
       /\ pre' = Snapshot(articles, entities, tuples, min_articles, min_queries)
       /\ IF FilterAttribute(kw) = None
          THEN /\ raised' = "Exception"
               /\ guarantee' = NoGuarantee
               /\ UNCHANGED database_vars
          ELSE LET kept == KeptTuples(tuples, FilterAttribute(kw), FilterThreshold(kw))
                   to_keep_tuples == {StrOfTuple(t) : t \in kept}
                   to_keep_articles == UNION {t.article_ids : t \in kept}
                   to_keep_entities == UNION {Range(StrOfTuple(t)) : t \in kept}
               IN  /\ tuples' = clean_tuples(tuples, to_keep_tuples)
                   /\ articles' = clean_articles(articles, to_keep_articles)
                   /\ entities' = clean_entities(entities, to_keep_entities)
                   /\ min_articles' =
                         IF "min_articles" \in DOMAIN kw THEN kw["min_articles"] ELSE min_articles
                   /\ min_queries' =
                         IF "min_queries" \in DOMAIN kw THEN kw["min_queries"] ELSE min_queries
                   /\ raised' = None
                   /\ guarantee' = NextGuarantee(kw)
                   /\ UNCHANGED queries
       /\ UNCHANGED <<coreferences, sentences, abstract, contexts, tuple_, ret,
                      contexts_sentences, types, objects, args>>
       /\ UNCHANGED pipeline_vars

NextFilter == Filter

SpecFilter == InitFilter /\ [][NextFilter]_vars

(***************************************************************************)
(* Properties of Database.filter (checked under SpecFilter).               *)
(***************************************************************************)

\* the last call of filter returned
Filtered == called = "filter" /\ raised = None

\* every tuple has at least threshold elements in the attribute
AllHave(attribute, threshold) ==
    \A i \in 1..Len(tuples) : Cardinality(tuples[i][attribute]) >= threshold

\* C8: after filter(min_articles=k) every surviving tuple has at least k article
\* ids, after filter(min_queries=q) at least q query ids, and this remains so after
\* later calls of filter of the same kind with the same or a larger threshold.
C8_ThresholdKept ==
    Filtered =>
       /\ DOMAIN kwargs = {"min_articles"} => AllHave("article_ids", kwargs["min_articles"])
       /\ DOMAIN kwargs = {"min_queries"} => AllHave("query_ids", kwargs["min_queries"])
       /\ guarantee.attribute = "article_ids" => AllHave("article_ids", guarantee.threshold)
       /\ guarantee.attribute = "query_ids" => AllHave("query_ids", guarantee.threshold)

\* a filter on the queries followed by one with a larger threshold, which removed
\* some tuples and kept others
C8_Witness ==
    /\ Filtered
    /\ DOMAIN kwargs = {"min_queries"}
    /\ guarantee.attribute = "query_ids"
    /\ guarantee.threshold < kwargs["min_queries"]
    /\ tuples # <<>>
    /\ Len(tuples) < Len(pre.tuples)

\* the article ids and the entity names the tuples refer to
ReferencedArticles == UNION {tuples[i].article_ids : i \in 1..Len(tuples)}

ReferencedEntities ==
    UNION {{tuples[i].entities[e].name : e \in 1..Len(tuples[i].entities)} : i \in 1..Len(tuples)}

\* C9: after filter the articles are exactly the articles of before in the
\* article_ids of a surviving tuple, the entities exactly the entities of before in
\* a surviving tuple, and every article id and entity a surviving tuple refers to is
\* in the database.
C9_ExactSurvivors ==
    Filtered =>
       /\ articles = SelectSeq(pre.articles, LAMBDA item : item.key \in ReferencedArticles)
       /\ entities = SelectSeq(pre.entities, LAMBDA item : item.key \in ReferencedEntities)
       /\ ReferencedArticles \subseteq DictKeys(articles)
       /\ ReferencedEntities \subseteq DictKeys(entities)

\* a filter removed tuples, articles and entities and kept others
C9_Witness ==
    /\ Filtered
    /\ tuples # <<>>
    /\ Len(tuples) < Len(pre.tuples)
    /\ Len(articles) < Len(pre.articles)
    /\ Len(entities) < Len(pre.entities)

\* C10: filter called with both min_articles and min_queries, or with neither,
\* raises an exception and leaves articles, tuples, entities, min_articles and
\* min_queries as they were; called with exactly one of them it does not raise.
C10_OnePredicatePerPass ==
    called = "filter" =>
       /\ raised = "Exception" <=> Cardinality(DOMAIN kwargs) # 1
       /\ raised = "Exception" =>
             Snapshot(articles, entities, tuples, min_articles, min_queries) = pre

\* filter was called with both thresholds, on tuples with fewer articles than
\* min_articles, and with thresholds other than those of the database
C10_Witness ==
    /\ called = "filter"
    /\ raised = "Exception"
    /\ DOMAIN kwargs = {"min_articles", "min_queries"}
    /\ \E i \in 1..Len(tuples) : Cardinality(tuples[i].article_ids) < kwargs["min_articles"]
    /\ kwargs["min_articles"] # min_articles
    /\ kwargs["min_queries"] # min_queries

(***************************************************************************)
(* Calls of the static methods Database.subtuples and BaseClass.subtuples.  *)
(***************************************************************************)

\* BaseClass.subtuples returning only the whole of l when it has more than 3 elements
RECURSIVE BaseClass_subtuples_cut(_)
BaseClass_subtuples_cut(l) ==
    IF Cardinality(l) < 2 THEN {}
    ELSE IF Cardinality(l) = 2 \/ Cardinality(l) > 3 THEN {SortedStrs(l)}
    ELSE {SortedStrs(l)} \cup UNION {BaseClass_subtuples_cut(l \ {x}) : x \in l}

\* BaseClass.subtuples
RECURSIVE BaseClass_subtuples(_)
BaseClass_subtuples(l) ==
    IF Cardinality(l) < 2 THEN {}
    ELSE IF Cardinality(l) = 2 \/ Cardinality(l) > 10 THEN {SortedStrs(l)}
    ELSE {SortedStrs(l)} \cup UNION {BaseClass_subtuples(l \ {x}) : x \in l}

\* the names of a long list of entities
Letters == <<"A", "B", "C", "D", "E", "F", "G", "H", "I", "J", "K">>

\* the largest number of names of the other lists given to subtuples
MaxNames == 6

\* the lists given to subtuples: of at most MaxNames names, or of all the names
NameLists ==
    SUBSET {<<Letters[i]>> : i \in 1..MaxNames} \cup {{<<Letters[i]>> : i \in 1..Len(Letters)}}

\* no database and no article, no call made
InitStatic ==
    /\ coreferences = None
    /\ sentences = None
    /\ abstract = None
    /\ contexts = None
    /\ tuple_ = None
    /\ called = "none"
    /\ ret = None
    /\ contexts_sentences = None
    /\ types = None
    /\ objects = None
    /\ InitDatabase

DatabaseSubtuples ==
    /\ called = "none"
    /\ \E l \in NameLists :
          /\ args' = l
          /\ ret' = subtuples(l)
    /\ called' = "Database.subtuples"
    /\ UNCHANGED <<coreferences, sentences, abstract, contexts, tuple_, contexts_sentences, types, objects>>
    /\ UNCHANGED <<database_vars, raised, kwargs, pre, guarantee>>
    /\ UNCHANGED pipeline_vars

BaseClassSubtuples ==
    /\ called = "none"
    /\ \E l \in NameLists :
          /\ args' = l
          /\ ret' = BaseClass_subtuples(l)
    /\ called' = "BaseClass.subtuples"
    /\ UNCHANGED <<coreferences, sentences, abstract, contexts, tuple_, contexts_sentences, types, objects>>
    /\ UNCHANGED <<database_vars, raised, kwargs, pre, guarantee>>
    /\ UNCHANGED pipeline_vars

NextSubtuples == DatabaseSubtuples \/ BaseClassSubtuples

SpecSubtuples == InitStatic /\ [][NextSubtuples]_vars

(***************************************************************************)
(* Properties of subtuples (checked under SpecSubtuples).                  *)
(***************************************************************************)

\* one of the two subtuples has been called
SubtuplesCalled == called \in {"Database.subtuples", "BaseClass.subtuples"}

\* the subsets of S of n elements, each as a sorted tuple
SortedSubsets(S, n) == {SortedStrs(T) : T \in {U \in SUBSET S : Cardinality(U) = n}}

\* subtuples on 3 names yields exactly the three subsets of 2 names, and not
\* the 3 names themselves
C11_Original ==
    SubtuplesCalled /\ Cardinality(args) = 3 => ret = SortedSubsets(args, 2)

\* C11: subtuples on 3 names yields the three subsets of 2 names and the tuple
\* of the 3 names itself; on 2 names it yields exactly the tuple of the 2 names.
C11_ThreeNames ==
    SubtuplesCalled =>
       /\ Cardinality(args) = 3 =>
             /\ ret = SortedSubsets(args, 2) \cup {SortedStrs(args)}
             /\ Cardinality(ret) = 4
       /\ Cardinality(args) = 2 => ret = {SortedStrs(args)}

\* Database.subtuples was called on the 3 names A, B, C
C11_Witness ==
    /\ called = "Database.subtuples"
    /\ args = {<<"A">>, <<"B">>, <<"C">>}
    /\ <<<<"A">>, <<"B">>, <<"C">>>> \in ret

\* C12: subtuples returns the empty set on fewer than 2 names, only the sorted
\* tuple of all the names on 2 or on more than 10 names, and otherwise the sorted
\* tuples of all the subsets of at least 2 names; the tuples are strictly
\* increasing; Database.subtuples and BaseClass.subtuples return the same.
C12_AllSubsets ==
    SubtuplesCalled =>
       /\ ret = IF Cardinality(args) < 2 THEN {}
                ELSE IF Cardinality(args) = 2 \/ Cardinality(args) > 10 THEN {SortedStrs(args)}
                ELSE {SortedStrs(T) : T \in {U \in SUBSET args : Cardinality(U) >= 2}}
       /\ \A t \in ret : \A i \in 1..Len(t) : \A j \in 1..Len(t) :
             i < j => StrLess(t[i], t[j])
       /\ called = "Database.subtuples" => ret = BaseClass_subtuples(args)
       /\ called = "BaseClass.subtuples" => ret = subtuples(args)

\* BaseClass.subtuples was called on 4 names and returned their 11 subsets of at
\* least 2 names
C12_Witness ==
    /\ called = "BaseClass.subtuples"
    /\ Cardinality(args) = 4
    /\ Cardinality(ret) = 11

(***************************************************************************)
(* The database after compute_articles, and calls of compute_entities,     *)
(* compute_tuples and filter.                                              *)
(***************************************************************************)

Person(name) == [name |-> name, type_ |-> "person"]

Location(name) == [name |-> name, type_ |-> "location"]

\* the entities the file of an article identifies: a few persons, a person and a
\* location of the same name as a person, or a long list of persons
IdentifiedSets ==
    { {Person(Alice), Person(Bob)},
      {Person(Alice), Person(Bob), Person(Carol)},
      {Person(Alice), Location(Paris)},
      {Person(Alice), Person(Paris)},
      {Person(<<Letters[i]>>) : i \in 1..Len(Letters)} }

\* get_entities: the entities of the file, listed by name
get_entities(article) ==
    LET names == SortedStrs({entity.name : entity \in article.identified})
    IN  [e \in 1..Len(names) |-> CHOOSE entity \in article.identified : entity.name = names[e]]

\* lines 340-351: the entities of all the articles, in the order they are met
RECURSIVE AllIdentified(_)
AllIdentified(articles_) ==
    IF articles_ = <<>> THEN <<>>
    ELSE get_entities(Head(articles_).value) \o AllIdentified(Tail(articles_))

\* line 362: article.entities = [self.entities[name] for name in ...], for every article
AssignEntities(articles_, entities_) ==
    [a \in 1..Len(articles_) |->
        [key |-> articles_[a].key,
         value |-> [articles_[a].value EXCEPT !.entities =
                       LET identified == get_entities(articles_[a].value)
                       IN  [e \in 1..Len(identified) |->
                               DictGet(entities_, StrOfEntity(identified[e]))]]]]

InitCorpus ==
    /\ coreferences = None
    /\ sentences = None
    /\ abstract = None
    /\ contexts = None
    /\ tuple_ = None
    /\ called = "none"
    /\ ret = None
    /\ contexts_sentences = None
    /\ types = None
    /\ objects = None
    /\ \E corpus \in [1..NumArticles -> IdentifiedSets] :
          articles = [a \in 1..NumArticles |->
                         [key |-> IntToStr(a),
                          value |-> [entities |-> None, identified |-> corpus[a]]]]
    /\ entities = None
    /\ tuples = None
    /\ min_articles = 1
    /\ min_queries = 1
    /\ queries = None
    /\ raised = None
    /\ kwargs = [k \in {} |-> 0]
    /\ pre = Snapshot(articles, entities, tuples, min_articles, min_queries)
    /\ guarantee = NoGuarantee
    /\ args = None
    /\ pipeline = None
    /\ frame = None

ComputeEntities ==
    /\ called = "none"
    /\ entities' = compute_entities(AllIdentified(articles), <<>>)
    /\ articles' = AssignEntities(articles, entities')
    /\ called' = "compute_entities"
    /\ UNCHANGED <<coreferences, sentences, abstract, contexts, tuple_, ret, contexts_sentences, types, objects>>
    /\ UNCHANGED <<tuples, min_articles, min_queries, queries, call_vars>>
    /\ UNCHANGED pipeline_vars

ComputeTuples ==
    /\ called = "compute_entities"
    /\ \E order \in Orders(DOMAIN Ids(articles)) :
          tuples' = compute_tuples(articles, entities, order)
    /\ called' = "compute_tuples"
    /\ UNCHANGED <<coreferences, sentences, abstract, contexts, tuple_, ret, contexts_sentences, types, objects>>
    /\ UNCHANGED <<articles, entities, min_articles, min_queries, queries, call_vars>>
    /\ UNCHANGED pipeline_vars

\* filter, once the tuples are computed
FilterTuples ==
    /\ called \in {"compute_tuples", "filter"}
    /\ Filter

NextTuples == ComputeEntities \/ ComputeTuples \/ FilterTuples

SpecTuples == InitCorpus /\ [][NextTuples]_vars

(***************************************************************************)
(* Properties of compute_tuples (checked under SpecTuples).                *)
(***************************************************************************)

\* the articles, in the other order
ReverseArticles == [a \in 1..Len(articles) |-> articles[Len(articles) + 1 - a]]

\* the canonical string form of a tuple
CanonicalForm(t) == StrOfNames(StrOfTuple(t))

\* C13: compute_tuples gives the tuples the ids "1", ..., "N" in ranking order: a
\* tuple with a smaller id never has fewer articles than one with a larger id,
\* tuples with as many articles are in decreasing lexicographic order of their
\* canonical string forms, and the ids are the same whatever the order in which
\* the articles and the sets of subtuples are iterated.
C13_RankIds ==
    called = "compute_tuples" =>
       /\ \A i \in 1..Len(tuples) : tuples[i].id_ = IntToStr(i)
       /\ \A i \in 1..Len(tuples) : \A j \in 1..Len(tuples) :
             i < j =>
                /\ Cardinality(tuples[i].article_ids) >= Cardinality(tuples[j].article_ids)
                /\ Cardinality(tuples[i].article_ids) = Cardinality(tuples[j].article_ids)
                      => StrLess(CanonicalForm(tuples[j]), CanonicalForm(tuples[i]))
       /\ tuples = compute_tuples(ReverseArticles, entities, AnOrder(DOMAIN Ids(articles)))

\* compute_tuples ranked tuples that have as many articles and tuples that do not
C13_Witness ==
    /\ called = "compute_tuples"
    /\ Len(tuples) >= 3
    /\ \E i \in 1..Len(tuples) : \E j \in 1..Len(tuples) :
          /\ i < j
          /\ Cardinality(tuples[i].article_ids) = Cardinality(tuples[j].article_ids)
    /\ \E i \in 1..Len(tuples) : \E j \in 1..Len(tuples) :
          Cardinality(tuples[i].article_ids) > Cardinality(tuples[j].article_ids)

\* the tuples are computed
TuplesComputed == called \in {"compute_tuples", "filter"}

MAX_TUPLE_SIZE == 6

\* C14: every Tuple created by compute_tuples consists of between 2 and
\* MAX_TUPLE_SIZE entities, all of one type.
C14_TupleSizes ==
    TuplesComputed =>
       \A i \in 1..Len(tuples) :
          /\ Len(tuples[i].entities) >= 2
          /\ Len(tuples[i].entities) <= MAX_TUPLE_SIZE
          /\ \A e \in 1..Len(tuples[i].entities) :
                tuples[i].entities[e].type_ = tuples[i].entities[1].type_

\* C15: in every state reached by compute_entities, compute_tuples and calls of
\* filter, every article id of a Tuple is the id of an article of the database
\* whose entities hold every entity of the Tuple.
C15_TupleEntitiesInArticles ==
    TuplesComputed =>
       \A i \in 1..Len(tuples) : \A article_id_ \in tuples[i].article_ids :
          /\ DictHas(articles, article_id_)
          /\ Range(tuples[i].entities) \subseteq Range(DictGet(articles, article_id_).entities)

\* a filter removed some tuples and kept a tuple of several articles
C15_Witness ==
    /\ called = "filter"
    /\ raised = None
    /\ Len(tuples) < Len(pre.tuples)
    /\ \E i \in 1..Len(tuples) : Cardinality(tuples[i].article_ids) >= 2

\* the names of the tuple, and its type
NamesOf(t) == Range(StrOfTuple(t))

TypeOf(t) == t.entities[1].type_

\* the articles whose entities of the type include the names
ArticlesWith(names, type_) ==
    {articles[a].key : a \in {i \in 1..Len(articles) :
                                 names \subseteq EntitiesOfType(articles[i].value, type_)}}

\* after compute_tuples the article_ids of every tuple are the articles whose
\* entities of its type include its entities, and every set of at least 2
\* entities of one type of an article is a tuple
C16_Original ==
    called = "compute_tuples" =>
       /\ \A i \in 1..Len(tuples) :
             tuples[i].article_ids = ArticlesWith(NamesOf(tuples[i]), TypeOf(tuples[i]))
       /\ \A a \in 1..Len(articles) : \A type_ \in TypesOf(articles[a].value) :
             \A S \in SUBSET EntitiesOfType(articles[a].value, type_) :
                Cardinality(S) >= 2 => \E i \in 1..Len(tuples) : NamesOf(tuples[i]) = S

\* the article counts towards the names: it has them among at most 10 entities of
\* the type, or they are all its entities of the type
Counts(article, names, type_) ==
    /\ names \subseteq EntitiesOfType(article, type_)
    /\ Cardinality(EntitiesOfType(article, type_)) <= 10 \/ names = EntitiesOfType(article, type_)

\* C16: after compute_tuples the article_ids of every tuple are the articles that
\* have its entities among at most 10 entities of its type, or whose entities of
\* its type are exactly its entities; every set of at least 2 entities of one
\* type of such an article is a tuple.
C16_ArticleIds ==
    called = "compute_tuples" =>
       /\ \A i \in 1..Len(tuples) :
             tuples[i].article_ids =
                {articles[a].key : a \in {j \in 1..Len(articles) :
                    Counts(articles[j].value, NamesOf(tuples[i]), TypeOf(tuples[i]))}}
       /\ \A a \in 1..Len(articles) : \A type_ \in TypesOf(articles[a].value) :
             \A S \in SUBSET EntitiesOfType(articles[a].value, type_) :
                Cardinality(S) >= 2 /\ Counts(articles[a].value, S, type_)
                   => \E i \in 1..Len(tuples) : NamesOf(tuples[i]) = S

\* an article has more than 10 persons, Alice and Bob among them, and the tuple
\* of Alice and Bob has another article only
C16_Witness ==
    /\ called = "compute_tuples"
    /\ \E a \in 1..Len(articles) : Cardinality(EntitiesOfType(articles[a].value, "person")) > 10
    /\ \E i \in 1..Len(tuples) :
          /\ NamesOf(tuples[i]) = {Alice, Bob}
          /\ Cardinality(tuples[i].article_ids) = 1
          /\ Cardinality(ArticlesWith({Alice, Bob}, "person")) = 2

(***************************************************************************)
(* Calls of the static method BaseClass.match.                             *)
(***************************************************************************)

\* the tokens of the names
Tokens == {<<"A">>, <<"B">>, <<"C", "d">>}

\* with a parenthesis after it
Suffixed(name) == name \o <<" ", "(", "x", ")">>

\* the forms of the name of a person, by first name, middle token and last name
PersonForms(F, M, L) ==
    LET forms == { L \o <<",", " ">> \o F,
                   F \o <<" ">> \o L,
                   F \o <<" ">> \o M \o <<" ">> \o L,
                   L \o <<",", " ">> \o F \o <<" ">> \o M,
                   L }
    IN  forms \cup {Suffixed(form) : form \in forms}

\* the strings given to match: the forms of the persons A Cd B and B A, and lists
\* of names
MatchStrings ==
    PersonForms(<<"A">>, <<"C", "d">>, <<"B">>)
    \cup {<<"A">>, <<"B", " ", "A">>, <<"A", ",", " ", "B">>, <<"A", ",", " ", "C", ",", " ", "B">>}

Match ==
    /\ called = "none"
    /\ \E entity1 \in MatchStrings, entity2 \in MatchStrings :
          /\ args' = <<entity1, entity2>>
          /\ ret' = match(entity1, entity2)
    /\ called' = "match"
    /\ UNCHANGED <<coreferences, sentences, abstract, contexts, tuple_, contexts_sentences, types, objects>>
    /\ UNCHANGED <<database_vars, raised, kwargs, pre, guarantee>>
    /\ UNCHANGED pipeline_vars

\* three calls of match, on three strings two by two
MatchThree ==
    /\ called = "none"
    /\ \E a \in MatchStrings, b \in MatchStrings, c \in MatchStrings :
          /\ args' = <<a, b, c>>
          /\ ret' = <<match(a, b), match(b, c), match(a, c)>>
    /\ called' = "match, three times"
    /\ UNCHANGED <<coreferences, sentences, abstract, contexts, tuple_, contexts_sentences, types, objects>>
    /\ UNCHANGED <<database_vars, raised, kwargs, pre, guarantee>>
    /\ UNCHANGED pipeline_vars

\* a call of match on two forms of the name of a person
MatchForms ==
    /\ called = "none"
    /\ \E F \in Tokens, M \in Tokens, L \in Tokens :
          \E entity1 \in PersonForms(F, M, L), entity2 \in PersonForms(F, M, L) :
             /\ args' = <<entity1, entity2, F, M, L>>
             /\ ret' = match(entity1, entity2)
    /\ called' = "match, forms"
    /\ UNCHANGED <<coreferences, sentences, abstract, contexts, tuple_, contexts_sentences, types, objects>>
    /\ UNCHANGED <<database_vars, raised, kwargs, pre, guarantee>>
    /\ UNCHANGED pipeline_vars

NextMatch == Match \/ MatchThree \/ MatchForms

SpecMatch == InitStatic /\ [][NextMatch]_vars

(***************************************************************************)
(* Properties of match (checked under SpecMatch).                          *)
(***************************************************************************)

\* C17: match is symmetric: match(a, b) equals match(b, a).
C17_Symmetric ==
    called = "match" => ret = match(args[2], args[1])

\* match was called on a full name and the surname, and they match
C17_Witness ==
    /\ called = "match"
    /\ args = <<<<"A", " ", "B">>, <<"B">>>>
    /\ ret = TRUE

\* C18: match is not transitive: "A" matches "A, B" and "A, B" matches "A, C, B",
\* but "A" does not match "A, C, B".
C18_NotTransitive ==
    /\ called = "match, three times"
    /\ args = <<<<"A">>, <<"A", ",", " ", "B">>, <<"A", ",", " ", "C", ",", " ", "B">>>>
    => ret = <<TRUE, TRUE, FALSE>>

\* three strings of which the first two match, the last two match, and the
\* first and the last do not
C18_Witness ==
    /\ called = "match, three times"
    /\ ret = <<TRUE, TRUE, FALSE>>
    /\ args[1] = <<"A">>
    /\ args[3] = <<"A", ",", " ", "C", ",", " ", "B">>

\* C19: the forms "L, F", "F L", "F M L", "L, F M" and "L" of the name of a
\* person, with or without a parenthesis after them, match two by two; their
\* standardizations all hold the surname L, and "F L" but for the bare surname.
C19_PersonForms ==
    called = "match, forms" =>
       LET F == args[3]
           L == args[5]
       IN  /\ ret = TRUE
           /\ \A i \in 1..2 :
                 /\ L \in standardize(args[i])
                 /\ args[i] \notin {L, Suffixed(L)} => (F \o <<" ">> \o L) \in standardize(args[i])

\* match was called on "B, A Cd (x)" and "B"
C19_Witness ==
    /\ called = "match, forms"
    /\ args[1] = <<"B", ",", " ", "A", " ", "C", "d", " ", "(", "x", ")">>
    /\ args[2] = <<"B">>
    /\ ret = TRUE

(***************************************************************************)
(* Database.compute_queries, on a database whose contexts are computed:    *)
(* every article holds, for every tuple that lists it, the dict of its     *)
(* contexts by id, under the key str(tuple_).                              *)
(***************************************************************************)

\* Query(id_, tuple_, article, context); the article is referred to by its id
Query(id_, tuple__, article, context) ==
    [id_ |-> id_, tuple_ |-> tuple__, article |-> article, context |-> context]

\* the id of a query without the id of the tuple
QueryId_article(article_id_, id_, context_id_) == Join(<<article_id_, context_id_>>, <<"_">>)

\* line 507: '_'.join([article_id_, tuple_.id_, context_id_])
QueryId(article_id_, id_, context_id_) == Join(<<article_id_, id_, context_id_>>, <<"_">>)

\* lines 506-511: the loop on the contexts of an article for a tuple
RECURSIVE ContextQueries(_, _, _, _)
ContextQueries(queries_, t, article_id_, article_contexts) ==
    IF article_contexts = <<>> THEN queries_
    ELSE LET context_id_ == Head(article_contexts).key
             query_id_ == QueryId(article_id_, t.id_, context_id_)
         IN  ContextQueries(DictSet(queries_, query_id_,
                                    Query(query_id_, t, article_id_, Head(article_contexts).value)),
                            t, article_id_, Tail(article_contexts))

\* lines 503-511: the loop on the sorted ids of the articles of a tuple
RECURSIVE ArticleQueries(_, _, _, _)
ArticleQueries(queries_, t, article_ids, articles_) ==
    IF article_ids = <<>> THEN queries_
    ELSE LET article_contexts == DictGet(DictGet(articles_, Head(article_ids)).contexts, StrOfTuple(t))
         IN  ArticleQueries(ContextQueries(queries_, t, Head(article_ids), article_contexts),
                            t, Tail(article_ids), articles_)

\* lines 500-511: the loop on the tuples
RECURSIVE TupleQueries(_, _, _)
TupleQueries(queries_, tuples_, articles_) ==
    IF tuples_ = <<>> THEN queries_
    ELSE TupleQueries(ArticleQueries(queries_, Head(tuples_), SortedStrs(Head(tuples_).article_ids),
                                     articles_),
                      Tail(tuples_), articles_)

compute_queries(tuples_, articles_) == TupleQueries(<<>>, tuples_, articles_)

\* the ids of the contexts of an article for a tuple, in the order of the dict:
\* windows of sentences and the abstract
ContextIds == { <<>>, <<<<"0">>>>, <<<<"0", "_", "1">>, <<"0">>>>,
                <<<<"0", "_", "1">>, <<"1", "_", "1">>>> }

\* a context of an article for a tuple
ContextOf(article_id_, name, context_id_) ==
    [article |-> article_id_, tuple_ |-> name, id_ |-> context_id_]

\* the contexts of an article: for every tuple that lists it, the contexts of the
\* given ids
ArticleContexts(article_id_, tuples_, context_ids) ==
    LET listing == SelectSeq(tuples_, LAMBDA t : article_id_ \in t.article_ids)
    IN  [i \in 1..Len(listing) |->
            [key |-> StrOfTuple(listing[i]),
             value |-> [c \in 1..Len(context_ids) |->
                          [key |-> context_ids[c],
                           value |-> ContextOf(article_id_, StrOfTuple(listing[i]), context_ids[c])]]]]

InitQueries ==
    /\ coreferences = None
    /\ sentences = None
    /\ abstract = None
    /\ contexts = None
    /\ tuple_ = None
    /\ called = "none"
    /\ ret = None
    /\ contexts_sentences = None
    /\ types = None
    /\ objects = None
    /\ \E corpus \in [1..NumArticles -> ArticleEntitySets],
          ids \in [1..NumArticles -> ContextIds] :
          LET articles_ == ArticlesOf(corpus)
              tuples_ == compute_tuples(articles_, compute_entities(AllEntities(articles_), <<>>),
                                        AnOrder(DOMAIN Ids(articles_)))
          IN  /\ articles = [a \in 1..NumArticles |->
                                [key |-> articles_[a].key,
                                 value |-> [entities |-> articles_[a].value.entities,
                                            contexts |-> ArticleContexts(articles_[a].key, tuples_,
                                                                         ids[a])]]]
              /\ entities = compute_entities(AllEntities(articles_), <<>>)
              /\ tuples = SetQueryIds(tuples_,
                                      [a \in 1..NumArticles |->
                                          [key |-> IntToStr(a), value |-> Range(ids[a])]])
    /\ min_articles = 1
    /\ min_queries = 1
    /\ queries = None
    /\ raised = None
    /\ kwargs = [k \in {} |-> 0]
    /\ pre = Snapshot(articles, entities, tuples, min_articles, min_queries)
    /\ guarantee = NoGuarantee
    /\ args = None
    /\ pipeline = None
    /\ frame = None

ComputeQueries ==
    /\ called = "none"
    /\ queries' = compute_queries(tuples, articles)
    /\ called' = "compute_queries"
    /\ UNCHANGED <<coreferences, sentences, abstract, contexts, tuple_, ret, contexts_sentences, types, objects>>
    /\ UNCHANGED <<articles, entities, tuples, min_articles, min_queries, call_vars>>
    /\ UNCHANGED pipeline_vars

NextQueries == ComputeQueries

SpecQueries == InitQueries /\ [][NextQueries]_vars

(***************************************************************************)
(* Properties of Database.compute_queries (checked under SpecQueries).     *)
(***************************************************************************)

\* the (article, tuple, context) triples of the database: a tuple, the id of an
\* article it lists and the id of a context of that article for the tuple
Triples ==
    {triple \in (1..Len(tuples)) \X DictKeys(articles) \X UNION {Range(ids) : ids \in ContextIds} :
        /\ triple[2] \in tuples[triple[1]].article_ids
        /\ DictHas(DictGet(DictGet(articles, triple[2]).contexts, StrOfTuple(tuples[triple[1]])),
                   triple[3])}

\* C20: every Query built by compute_queries has the id
\* "<article_id>_<tuple_rank_id>_<context_id>" of its article, tuple and context,
\* under which it is stored, and different (article, tuple, context) triples get
\* different ids: every triple has its own Query in the mapping.
C20_QueryIds ==
    called = "compute_queries" =>
       /\ \A i \in 1..Len(queries) :
             LET q == queries[i].value
             IN  /\ queries[i].key = q.id_
                 /\ q.id_ = q.article \o <<"_">> \o q.tuple_.id_ \o <<"_">> \o q.context.id_
                 /\ q.context.article = q.article
                 /\ q.context.tuple_ = StrOfTuple(q.tuple_)
       /\ \A triple \in Triples :
             /\ DictHas(queries, triple[2] \o <<"_">> \o tuples[triple[1]].id_ \o <<"_">> \o triple[3])
             /\ LET q == DictGet(queries, triple[2] \o <<"_">> \o tuples[triple[1]].id_
                                          \o <<"_">> \o triple[3])
                IN  /\ q.article = triple[2]
                    /\ q.tuple_ = tuples[triple[1]]
                    /\ q.context.id_ = triple[3]
       /\ Len(queries) = Cardinality(Triples)

\* queries were computed for two articles that share a tuple and have contexts of
\* the same id, which holds "_"
C20_Witness ==
    /\ called = "compute_queries"
    /\ Len(queries) > Len(tuples)
    /\ \E i \in 1..Len(queries), j \in 1..Len(queries) :
          /\ queries[i].value.article # queries[j].value.article
          /\ queries[i].value.tuple_ = queries[j].value.tuple_
          /\ queries[i].value.context.id_ = queries[j].value.context.id_
          /\ queries[i].value.context.id_ = <<"0", "_", "1">>

(***************************************************************************)
(* Two runs of Article.compute_contexts on the same article and tuple      *)
(* (checked under SpecContexts).                                           *)
(***************************************************************************)

\* the ids compute_queries builds from the contexts of an article for a tuple, in
\* the order it builds them
QueryIdsOf(article_id_, t, article_contexts) ==
    [c \in 1..Len(article_contexts) |-> QueryId(article_id_, t.id_, article_contexts[c].key)]

\* C21: the contexts compute_contexts stores for a tuple, and the ids of the
\* queries built from them, are the same, order included, in two runs in which
\* the set of the types of contexts iterates in different orders.
C21_Deterministic ==
    called = "compute_contexts" =>
       \A order \in TypeOrders :
          Range(order) = Range(types) =>
             LET other == compute_contexts(None, order, coreferences, sentences, abstract, tuple_)
             IN  /\ other = contexts
                 /\ QueryIdsOf(<<"1">>, tuple_, DictGet(other, TupleGetName(tuple_)))
                       = QueryIdsOf(<<"1">>, tuple_, DictGet(contexts, TupleGetName(tuple_)))

(***************************************************************************)
(* Article.contexts_neigh_sent with the Sentence objects in memory: the    *)
(* article's sentences and the sentences of the contexts are addresses of  *)
(* objects, and an assignment to an attribute of a Sentence changes the    *)
(* object at its address.                                                  *)
(***************************************************************************)

\* self.sentences[idx] in place of deepcopy(self.sentences[idx]): the same object
deepcopy_same(objs, address) == [objects |-> objs, address |-> address]

\* line 315: deepcopy(self.sentences[idx]): a new object with the same content
deepcopy_object(objs, address) ==
    [objects |-> Append(objs, deepcopy(objs[address])), address |-> Len(objs) + 1]

\* line 315: {idx: deepcopy(self.sentences[idx]) for idx in idxs}
RECURSIVE CopySentenceObjects(_, _, _, _)
CopySentenceObjects(objs, sents, idxs, acc) ==
    IF idxs = <<>> THEN [objects |-> objs, sentences |-> acc]
    ELSE LET copy == deepcopy_object(objs, DictGet(sents, Head(idxs)))
         IN  CopySentenceObjects(copy.objects, sents, Tail(idxs),
                                 DictSet(acc, Head(idxs), copy.address))

\* lines 298-316: one Context per window, in sorted order
RECURSIVE MaterializeObjects(_, _, _, _, _, _)
MaterializeObjects(objs, corefs, sents, entities_, windows, contexts_) ==
    IF windows = <<>> THEN [objects |-> objs, contexts |-> contexts_]
    ELSE LET idxs == Head(windows)
             copies == CopySentenceObjects(objs, sents, idxs, <<>>)
         IN  MaterializeObjects(copies.objects, corefs, sents, entities_, Tail(windows),
                 DictSet(contexts_, WindowId(idxs),
                         Context(copies.sentences,
                                 EntityCoreferences(corefs, entities_, idxs, <<>>),
                                 None)))

\* the Sentences at the addresses of a dict of sentences
SentencesAt(objs, sents) ==
    [i \in 1..Len(sents) |-> [key |-> sents[i].key, value |-> objs[sents[i].value]]]

\* the Sentences the contexts hold
ContextsSentencesAt(objs, contexts_) ==
    [k \in 1..Len(contexts_) |->
        [key |-> contexts_[k].key, value |-> SentencesAt(objs, contexts_[k].value.sentences)]]

\* the shape of the article whose sentences are followed in memory
SnapshotShape == [first |-> 0, n |-> NumSent - 2, unresolved |-> FALSE]

InitSnapshot ==
    /\ LET sents == SentencesOf(SortedInts(SentenceIdxs(SnapshotShape)))
       IN  /\ objects = [i \in 1..Len(sents) |-> sents[i].value]
           /\ sentences = [i \in 1..Len(sents) |-> [key |-> sents[i].key, value |-> i]]
    /\ \E layout \in [1..Len(ArticleEntities) -> MentionSets(SnapshotShape)] :
          coreferences = CoreferencesOf(SnapshotShape, layout)
    /\ abstract = <<>>
    /\ contexts = None
    /\ tuple_ \in Tuples
    /\ called = "none"
    /\ ret = None
    /\ contexts_sentences = None
    /\ types = None
    /\ InitDatabase

ContextsNeighSentObjects ==
    /\ called = "none"
    /\ LET windows == SortedContextsSentences(coreferences, tuple_.entities)
           made == MaterializeObjects(objects, coreferences, sentences, tuple_.entities, windows, <<>>)
       IN  /\ contexts_sentences' = windows
           /\ ret' = made.contexts
           /\ objects' = made.objects
           /\ pre' = ContextsSentencesAt(made.objects, made.contexts)
    /\ called' = "contexts_neigh_sent"
    /\ UNCHANGED <<coreferences, sentences, abstract, contexts, tuple_, types>>
    /\ UNCHANGED <<database_vars, raised, kwargs, guarantee, args>>
    /\ UNCHANGED pipeline_vars

\* sentence.text = ..., on the Sentence at an address
SetText(objs, address) == [objs EXCEPT ![address].text = <<"t">>]

\* a later assignment to the text of a Sentence of the article
ChangeArticleSentence ==
    /\ called = "contexts_neigh_sent"
    /\ \E idx \in DictKeys(sentences) :
          /\ objects' = SetText(objects, DictGet(sentences, idx))
          /\ args' = [of |-> "article", id_ |-> <<>>, idx |-> idx]
    /\ called' = "sentence.text ="
    /\ UNCHANGED <<coreferences, sentences, abstract, contexts, tuple_, ret, contexts_sentences, types>>
    /\ UNCHANGED <<database_vars, raised, kwargs, pre, guarantee>>
    /\ UNCHANGED pipeline_vars

\* a later assignment to the text of a Sentence of a context
ChangeContextSentence ==
    /\ called = "contexts_neigh_sent"
    /\ \E k \in 1..Len(ret) :
          \E idx \in DictKeys(ret[k].value.sentences) :
             /\ objects' = SetText(objects, DictGet(ret[k].value.sentences, idx))
             /\ args' = [of |-> "context", id_ |-> ret[k].key, idx |-> idx]
    /\ called' = "sentence.text ="
    /\ UNCHANGED <<coreferences, sentences, abstract, contexts, tuple_, ret, contexts_sentences, types>>
    /\ UNCHANGED <<database_vars, raised, kwargs, pre, guarantee>>
    /\ UNCHANGED pipeline_vars

NextSnapshot == ContextsNeighSentObjects \/ ChangeArticleSentence \/ ChangeContextSentence

SpecSnapshot == InitSnapshot /\ [][NextSnapshot]_vars

(***************************************************************************)
(* Properties of the sentences of the contexts (checked under              *)
(* SpecSnapshot).                                                          *)
(***************************************************************************)

\* C22: after an assignment to a Sentence of the article, or to a Sentence held
\* by a context, the sentences of every (other) context are as they were when the
\* contexts were created.
C22_Snapshot ==
    called = "sentence.text =" =>
       \A k \in 1..Len(ret) :
          \A i \in 1..Len(ret[k].value.sentences) :
             LET idx == ret[k].value.sentences[i].key
             IN  args # [of |-> "context", id_ |-> ret[k].key, idx |-> idx] =>
                    objects[ret[k].value.sentences[i].value] = pre[k].value[i].value

\* a Sentence of a context was changed, and another context covers the same
\* sentence index
C22_Witness ==
    /\ called = "sentence.text ="
    /\ args.of = "context"
    /\ \E k \in 1..Len(ret) :
          /\ ret[k].key # args.id_
          /\ DictHas(ret[k].value.sentences, args.idx)

(***************************************************************************)
(* Entities sighted under two types (checked under SpecTuples).            *)
(***************************************************************************)

\* the sightings of the corpus, in the order compute_entities meets them
Sightings == AllIdentified(articles)

\* C23: when an article sights an entity whose name is registered under another
\* type, the catalog keeps the type of the first sighting of the name, and the
\* later sighting is dropped: the article has no entity of that name.
C23_ConflictDropped ==
    called = "compute_entities" =>
       /\ \A i \in 1..Len(Sightings) :
             (\A j \in 1..(i - 1) : Sightings[j].name # Sightings[i].name)
                => DictGet(entities, Sightings[i].name).type_ = Sightings[i].type_
       /\ \A a \in 1..Len(articles) :
             \A sighted \in articles[a].value.identified :
                DictGet(entities, sighted.name).type_ # sighted.type_
                   => \A e \in 1..Len(articles[a].value.entities) :
                         articles[a].value.entities[e].name # sighted.name

(***************************************************************************)
(* Pipeline.process_data without k-fold: get_raw_data, then                *)
(* get_train_valid_split. A proportion is a number of quarters (1 stands   *)
(* for 0.25), so that its products are exact as they are in floating       *)
(* point. The raw data is a field of the pipeline once it is loaded.       *)
(***************************************************************************)

\* round(num / den), den > 0: to the nearest integer, a tie to the even one
RoundHalfEven(num, den) ==
    LET floor == num \div den
        rest == num % den
    IN  IF 2 * rest < den THEN floor
        ELSE IF 2 * rest > den THEN floor + 1
        ELSE IF floor % 2 = 0 THEN floor ELSE floor + 1

\* the quarters in a proportion of 1
Quarter == 4

\* lines 204-206: n_train, n_valid and n_test
SplitSizes(n, valid_proportion, test_proportion) ==
    LET n_valid == RoundHalfEven(valid_proportion * n, Quarter)
        n_test == RoundHalfEven(test_proportion * n, Quarter)
    IN  [n_train |-> n - n_test - n_valid, n_valid |-> n_valid, n_test |-> n_test]

\* numpy.split(raw_data, [i, j]): raw_data[:i], raw_data[i:j], raw_data[j:]
split(raw_data, i, j) ==
    <<SubSeq(raw_data, 1, i), SubSeq(raw_data, i + 1, j), SubSeq(raw_data, j + 1, Len(raw_data))>>

\* the whole method: the exception it raises (the assertion of line 208, or the
\* division by n of lines 212-214) or the sets it returns
get_train_valid_split(raw_data, valid_proportion, test_proportion) ==
    LET n == Len(raw_data)
        sizes == SplitSizes(n, valid_proportion, test_proportion)
    IN  IF ~(sizes.n_train >= 0 /\ sizes.n_valid >= 0 /\ sizes.n_test >= 0)
        THEN [raised |-> "AssertionError", ret |-> None]
        ELSE IF n = 0
        THEN [raised |-> "ZeroDivisionError", ret |-> None]
        ELSE [raised |-> None,
              ret |-> split(raw_data, sizes.n_train, sizes.n_train + sizes.n_valid)]

\* the numbers of samples of the task
DataSizes == 0..4

\* the proportions given to process_data, in quarters: from -0.25 to 1.25
Proportions == -1..5

\* the samples of the task, by number
RawData(n) == [sample \in 1..n |-> sample]

InitPipeline ==
    /\ coreferences = None
    /\ sentences = None
    /\ abstract = None
    /\ contexts = None
    /\ tuple_ = None
    /\ called = "none"
    /\ ret = None
    /\ contexts_sentences = None
    /\ types = None
    /\ objects = None
    /\ articles = None
    /\ entities = None
    /\ tuples = None
    /\ min_articles = 1
    /\ min_queries = 1
    /\ queries = None
    /\ raised = None
    /\ kwargs = None
    /\ pre = None
    /\ guarantee = None
    /\ args \in [samples : DataSizes, valid_proportion : Proportions, test_proportion : Proportions]
    /\ pipeline = [use_k_fold |-> FALSE]
    /\ frame = None

\* line 41: raw_data = self.get_raw_data()
GetRawData ==
    /\ called = "none"
    /\ pipeline' = [use_k_fold |-> pipeline.use_k_fold, raw_data |-> RawData(args.samples)]
    /\ called' = "get_raw_data"
    /\ UNCHANGED <<coreferences, sentences, abstract, contexts, tuple_, ret, contexts_sentences, types, objects>>
    /\ UNCHANGED <<database_vars, call_vars, frame>>

\* lines 43-46: the call of get_train_valid_split
GetTrainValidSplit ==
    /\ called = "get_raw_data"
    /\ LET result == get_train_valid_split(pipeline.raw_data, args.valid_proportion,
                                           args.test_proportion)
       IN  /\ raised' = result.raised
           /\ ret' = result.ret
    /\ called' = "get_train_valid_split"
    /\ UNCHANGED <<coreferences, sentences, abstract, contexts, tuple_, contexts_sentences, types, objects>>
    /\ UNCHANGED <<database_vars, kwargs, pre, guarantee, args, pipeline_vars>>

NextPipeline == GetRawData \/ GetTrainValidSplit

SpecPipeline == InitPipeline /\ [][NextPipeline]_vars

(***************************************************************************)
(* Properties of the split (checked under SpecPipeline).                   *)
(***************************************************************************)

\* a negative proportion, or proportions of more than 1 together
Malformed ==
    \/ args.valid_proportion < 0
    \/ args.test_proportion < 0
    \/ args.valid_proportion + args.test_proportion > Quarter

\* get_train_valid_split has failed its assertion and returned no split
RejectedBySplit == called = "get_train_valid_split" => raised = "AssertionError"

\* C24: with a negative valid_proportion or test_proportion, or with
\* valid_proportion + test_proportion > 1, get_train_valid_split fails its
\* assertion and returns no split, and no raw data is loaded.
C24_Rejected ==
    Malformed => (RejectedBySplit /\ "raw_data" \notin DOMAIN pipeline)

(***************************************************************************)
(* The shape of the windows (checked under SpecWindow).                    *)
(***************************************************************************)

\* C25: every window found for a tuple of m entities spans at most m sentences,
\* starts at a sentence that mentions an entity of the tuple, and ends at a
\* sentence that mentions an entity of the tuple which no earlier sentence of the
\* window mentions; no two windows found start at the same sentence.
C25_WindowShape ==
    Returned =>
       LET M == MentionsOf
       IN  /\ \A k \in 1..Len(contexts_sentences) :
                 LET idxs == contexts_sentences[k]
                     first == idxs[1]
                     last == idxs[Len(idxs)]
                 IN  /\ Len(idxs) <= TupleSize
                     /\ idxs = RangeTuple(first, last)
                     /\ MentionedIn(M, first)
                     /\ \E e \in Positions : last \in M[e] /\ M[e] \cap (first..(last - 1)) = {}
           /\ \A k, l \in 1..Len(contexts_sentences) :
                 contexts_sentences[k][1] = contexts_sentences[l][1] => k = l

\* a window of 3 sentences was found for a tuple of 3 entities, and another
\* window starts inside it
C25_Witness ==
    /\ Returned
    /\ TupleSize = 3
    /\ \E k, l \in 1..Len(contexts_sentences) :
          /\ Len(contexts_sentences[k]) = 3
          /\ contexts_sentences[l][1] > contexts_sentences[k][1]
          /\ contexts_sentences[l][1] <= contexts_sentences[k][3]

(***************************************************************************)
(* The query ids of the tuples and the queries (checked under SpecQueries).*)
(***************************************************************************)

\* the ids of the Queries built for a tuple
QueryIdsFor(t) ==
    {queries[i].key : i \in {j \in 1..Len(queries) : queries[j].value.tuple_.id_ = t.id_}}

\* C26: after compute_contexts and compute_queries, the query_ids of every tuple
\* are exactly the ids of the Queries built for the tuple: each is a key of
\* queries, and there are as many as the tuple has Queries.
C26_QueryIdsAreKeys ==
    called = "compute_queries" =>
       \A i \in 1..Len(tuples) :
          /\ tuples[i].query_ids = QueryIdsFor(tuples[i])
          /\ \A query_id_ \in tuples[i].query_ids : DictHas(queries, query_id_)
          /\ Cardinality(tuples[i].query_ids) = Cardinality(QueryIdsFor(tuples[i]))

(***************************************************************************)
(* An article with two persons of the same surname: the chains of the one  *)
(* match the other.                                                        *)
(***************************************************************************)

\* a person of first name B and surname A
BobAlice == Bob \o <<" ">> \o Alice

\* the entities of the article's metadata, sorted by name
NamesakeEntities ==
    << [name |-> Alice,    type_ |-> "person"],
       [name |-> Bob,      type_ |-> "person"],
       [name |-> BobAlice, type_ |-> "person"] >>

\* the shape of the article
NamesakeShape == [first |-> 0, n |-> NumSent - 2, unresolved |-> FALSE]

\* Article.get_coreferences: one chain per mentioned entity
NamesakeCoreferences(layout) ==
    SelectSeq([e \in 1..Len(NamesakeEntities) |->
                  [entity |-> NamesakeEntities[e].name, sentences |-> layout[e]]],
              LAMBDA coreference : coreference.sentences # {})

\* the Tuples of at least 2 entities of the article
NamesakeTuples ==
    {[id_ |-> <<"1">>, entities |-> SelectSeq(NamesakeEntities, LAMBDA entity : entity \in S)] :
        S \in {T \in SUBSET Range(NamesakeEntities) : Cardinality(T) >= 2}}

InitNamesakes ==
    /\ sentences = SentencesOf(SortedInts(SentenceIdxs(NamesakeShape)))
    /\ \E layout \in [1..Len(NamesakeEntities) -> MentionSets(NamesakeShape)] :
          coreferences = NamesakeCoreferences(layout)
    /\ abstract = <<>>
    /\ contexts = None
    /\ tuple_ \in NamesakeTuples
    /\ called = "none"
    /\ ret = None
    /\ contexts_sentences = None
    /\ types = None
    /\ objects = None
    /\ InitDatabase

SpecNamesakes == InitNamesakes /\ [][NextWindow]_vars

(***************************************************************************)
(* Discovery and materialisation of the windows (checked under             *)
(* SpecNamesakes).                                                         *)
(***************************************************************************)

\* the chains the k-th context lists for the e-th entity of the tuple
Listed(k, e) ==
    UNION {Range(ret[k].value.entity_coreferences[i].value[e][2]) :
              i \in 1..Len(ret[k].value.entity_coreferences)}

\* the chains that touch a sentence of the k-th context
Touching(k) ==
    {coreference \in Range(coreferences) :
        coreference.sentences \cap DictKeys(ret[k].value.sentences) # {}}

\* C27 as stated: every window context lists, for every entity of the tuple, at
\* least one chain in some sentence of the window.
C27_Original ==
    Returned => \A k \in 1..Len(ret) : \A e \in Positions : Listed(k, e) # {}

\* C27 amended: for every window context and every entity of the tuple, some
\* chain that matches the entity touches the window; the context lists exactly
\* the chains touching the window whose name equals the name of the entity, at
\* least one when there is one, and none when only chains of another, matching,
\* name attest the entity in the window.
C27_ExactListing ==
    Returned =>
       \A k \in 1..Len(ret) : \A e \in Positions :
          LET entity == tuple_.entities[e]
              matching == {coreference \in Touching(k) :
                              /\ Truthy(coreference.entity)
                              /\ EntityMatch(entity, coreference.entity)}
              named == {coreference \in Touching(k) : coreference.entity = entity.name}
          IN  /\ matching # {}
              /\ Listed(k, e) = named
              /\ named \subseteq matching

\* a window context that lists no chain for an entity of the tuple, which a
\* chain of another name attests
C27_Witness ==
    /\ Returned
    /\ \E k \in 1..Len(ret) : \E e \in Positions :
          /\ Listed(k, e) = {}
          /\ \E coreference \in Touching(k) :
                /\ coreference.entity # tuple_.entities[e].name
                /\ EntityMatch(tuple_.entities[e], coreference.entity)

(***************************************************************************)
(* Two calls of filter in a row (checked under SpecFilter).                *)
(***************************************************************************)

\* C28: a call of filter that follows a call of filter with the same threshold
\* removes nothing: the articles, the tuples and the entities are the same after
\* the second call as after the first.
C28_FixedPoint ==
    [][(/\ called = "filter"
        /\ raised = None
        /\ called' = "filter"
        /\ kwargs' = kwargs)
       => (articles' = articles /\ tuples' = tuples /\ entities' = entities)]_vars

\* filter(min_articles=...) was called again with the threshold of before, on a
\* database from which an article had been removed, and tuples remain
C28_Witness ==
    /\ called = "filter"
    /\ raised = None
    /\ DOMAIN kwargs = {"min_articles"}
    /\ pre.min_articles = kwargs["min_articles"]
    /\ guarantee = [attribute |-> "article_ids", threshold |-> kwargs["min_articles"]]
    /\ pre.tuples = tuples
    /\ Len(articles) < NumArticles
    /\ tuples # <<>>

(***************************************************************************)
(* Article.criterion_entity on the entities get_entities finds in the      *)
(* article's file (SpecCriterion).                                         *)
(***************************************************************************)

\* line 164: Entity(entity.text, 'org')
Org(name) == [name |-> name, type_ |-> "org"]

\* the locations, persons and organizations a file identifies
IdentifiedContent ==
    {Location(Paris), Location(<<"D">>), Person(Alice), Person(Bob), Person(Carol),
     Org(<<"E">>), Org(<<"F">>)}

\* line 250: the keys of numbers
NumbersKeys == {"location", "person", "organization"}

\* criterion_entity: numbers[entity.type_] += 1 raises KeyError on a type that is
\* no key of numbers
criterion_entity(entities_) ==
    IF \E e \in 1..Len(entities_) : entities_[e].type_ \notin NumbersKeys
    THEN [raised |-> "KeyError", ret |-> None]
    ELSE LET numbers == [type_ \in NumbersKeys |->
                            Cardinality({e \in 1..Len(entities_) : entities_[e].type_ = type_})]
         IN  [raised |-> None, ret |-> Max({numbers[type_] : type_ \in NumbersKeys}) < 2]

\* one article whose file identifies any of the entities
InitCriterion ==
    /\ coreferences = None
    /\ sentences = None
    /\ abstract = None
    /\ contexts = None
    /\ tuple_ = None
    /\ called = "none"
    /\ ret = None
    /\ contexts_sentences = None
    /\ types = None
    /\ objects = None
    /\ \E identified \in SUBSET IdentifiedContent :
          articles = <<[key |-> <<"1">>,
                        value |-> [entities |-> None, identified |-> identified]]>>
    /\ entities = None
    /\ tuples = None
    /\ min_articles = 1
    /\ min_queries = 1
    /\ queries = None
    /\ raised = None
    /\ kwargs = None
    /\ pre = None
    /\ guarantee = None
    /\ args = None
    /\ pipeline = None
    /\ frame = None

\* lines 58-59: self.entities = self.get_entities()
GetEntities ==
    /\ called = "none"
    /\ articles' = <<[key |-> articles[1].key,
                      value |-> [articles[1].value EXCEPT
                                    !.entities = get_entities(articles[1].value)]]>>
    /\ called' = "get_entities"
    /\ UNCHANGED <<coreferences, sentences, abstract, contexts, tuple_, ret, contexts_sentences, types, objects>>
    /\ UNCHANGED <<entities, tuples, min_articles, min_queries, queries>>
    /\ UNCHANGED <<call_vars, pipeline_vars>>

CriterionEntity ==
    /\ called = "get_entities"
    /\ LET result == criterion_entity(articles[1].value.entities)
       IN  /\ raised' = result.raised
           /\ ret' = result.ret
    /\ called' = "criterion_entity"
    /\ UNCHANGED <<coreferences, sentences, abstract, contexts, tuple_, contexts_sentences, types, objects>>
    /\ UNCHANGED <<database_vars, kwargs, pre, guarantee, args, pipeline_vars>>

NextCriterion == GetEntities \/ CriterionEntity

SpecCriterion == InitCriterion /\ [][NextCriterion]_vars

\* the article has 2 entities of the same type
TwoOfAType(entities_) ==
    \E e \in 1..Len(entities_) : \E f \in 1..Len(entities_) :
       e # f /\ entities_[e].type_ = entities_[f].type_

\* C29: criterion_entity returns a boolean without raising on every set of
\* entities get_entities can produce, and it returns True iff the article has
\* no 2 entities of the same type.
C29_Criterion ==
    called = "criterion_entity" =>
       /\ raised = None
       /\ ret = ~TwoOfAType(articles[1].value.entities)

(***************************************************************************)
(* Pipeline.get_loader, statement by statement (SpecLoader), and under     *)
(* the fairness of a running interpreter (SpecLoaderFair).                 *)
(***************************************************************************)

\* the largest number of samples of the data
MaxSamples == 2

\* the largest number of choices of a sample
MaxChoices == 2

\* the largest batch_size
MaxBatchSize == 3

\* the batch sizes: an int
BatchSizes == -1..MaxBatchSize

\* a terminating call appends at most one batch per choice: the loop is followed
\* up to one batch more
MaxBatches == MaxSamples * MaxChoices + 1

\* s[start:stop] on a list
PySlice(s, start, stop) ==
    LET norm(i) == IF i < 0 THEN Max({i + Len(s), 0}) ELSE Min({i, Len(s)})
    IN  SubSeq(s, norm(start) + 1, norm(stop))

\* the samples (inputs, targets): the choices are numbered, the targets are as
\* many as the choices or fewer
Samples ==
    {[inputs |-> [choices |-> RangeTuple(1, n)], targets |-> RangeTuple(1, t)] :
        <<n, t>> \in {<<n, t>> \in (0..MaxChoices) \X (0..MaxChoices) : t <= n}}

\* the data: lists of samples
Datas == UNION {[1..k -> Samples] : k \in 0..MaxSamples}

\* line 293: the orders shuffle can leave a list in
Shuffles(l) == {[i \in 1..Len(l) |-> l[p[i]]] : p \in Permutations(1..Len(l))}

\* line 283: the condition of the while loop
WhileCondition(drop_last, cmpt, batch_size, n) ==
    \/ drop_last /\ cmpt + batch_size <= n
    \/ ~drop_last /\ cmpt + 1 <= n

\* lines 284-289: the batch cut at cmpt
Batch(sample, cmpt, batch_size) ==
    [inputs |-> [choices |-> PySlice(sample.inputs.choices, cmpt, cmpt + batch_size)],
     targets |-> PySlice(sample.targets, cmpt, cmpt + batch_size)]

\* the call of get_loader on any data; ret is the list the call returns, empty
\* until then
InitLoader ==
    /\ coreferences = None
    /\ sentences = None
    /\ abstract = None
    /\ contexts = None
    /\ tuple_ = None
    /\ called = "none"
    /\ ret = <<>>
    /\ contexts_sentences = None
    /\ types = None
    /\ objects = None
    /\ articles = None
    /\ entities = None
    /\ tuples = None
    /\ min_articles = 1
    /\ min_queries = 1
    /\ queries = None
    /\ raised = None
    /\ kwargs = None
    /\ pre = None
    /\ guarantee = None
    /\ args \in [data : Datas, batch_size : BatchSizes, drop_last : BOOLEAN]
    /\ pipeline = None
    /\ frame = [pc |-> "call", sample |-> 0, n |-> 0, cmpt |-> 0, data_loader |-> <<>>]

\* line 276: data_loader = []
LoaderCall ==
    /\ frame.pc = "call"
    /\ frame' = [frame EXCEPT !.pc = "for", !.data_loader = <<>>]
    /\ UNCHANGED <<article_vars, database_vars, call_vars, pipeline>>

\* lines 278-281: the next sample of the for loop, n and cmpt
LoaderFor ==
    /\ frame.pc = "for"
    /\ frame.sample < Len(args.data)
    /\ frame' = [frame EXCEPT !.pc = "while",
                              !.sample = frame.sample + 1,
                              !.n = Len(args.data[frame.sample + 1].inputs.choices),
                              !.cmpt = 0]
    /\ UNCHANGED <<article_vars, database_vars, call_vars, pipeline>>

\* lines 283-291: one turn of the while loop
LoaderWhile ==
    /\ frame.pc = "while"
    /\ WhileCondition(args.drop_last, frame.cmpt, args.batch_size, frame.n)
    /\ Len(frame.data_loader) < MaxBatches
    /\ LET batch == Batch(args.data[frame.sample], frame.cmpt, args.batch_size)
       IN  frame' = [frame EXCEPT !.data_loader = Append(frame.data_loader, batch),
                                  !.cmpt = frame.cmpt + Len(batch.targets)]
    /\ UNCHANGED <<article_vars, database_vars, call_vars, pipeline>>

\* line 283: the condition is false, the while loop is left
LoaderWhileExit ==
    /\ frame.pc = "while"
    /\ ~WhileCondition(args.drop_last, frame.cmpt, args.batch_size, frame.n)
    /\ frame' = [frame EXCEPT !.pc = "for"]
    /\ UNCHANGED <<article_vars, database_vars, call_vars, pipeline>>

\* lines 293-295: shuffle(data_loader); return data_loader
LoaderReturn ==
    /\ frame.pc = "for"
    /\ frame.sample = Len(args.data)
    /\ ret' \in Shuffles(frame.data_loader)
    /\ called' = "get_loader"
    /\ frame' = [frame EXCEPT !.pc = "return"]
    /\ UNCHANGED <<coreferences, sentences, abstract, contexts, tuple_, contexts_sentences, types, objects>>
    /\ UNCHANGED <<database_vars, call_vars, pipeline>>

NextLoader == LoaderCall \/ LoaderFor \/ LoaderWhile \/ LoaderWhileExit \/ LoaderReturn

SpecLoader == InitLoader /\ [][NextLoader]_vars

\* the interpreter runs the next statement as long as there is one
SpecLoaderFair == SpecLoader /\ WF_vars(NextLoader)

\* C30: get_loader terminates for every data set and every batch_size.
C30_Terminates == <>(called = "get_loader")

====
